---------------------------- MODULE Spec2Model ----------------------------
(***************************************************************************)
(* Sentry-ai: geospatial grid decomposition and feature-extraction         *)
(* pipeline (backend/utils/gee_satellite.py,                               *)
(* backend/services/feature_extractor.py).                                 *)
(*                                                                         *)
(* Number representation.  The program computes in IEEE doubles; the model *)
(* computes in integers:                                                   *)
(*   - a coordinate is an integer number of 1/10000 degree (Deg units);    *)
(*   - a trigonometric value or an angle in radians is scaled by Scale;    *)
(*   - a distance is an integer number of metres;                          *)
(*   - an NDVI value is an integer number of thousandths.                  *)
(* Comparisons of the ray-casting test are done exactly, by cross          *)
(* multiplication, so the model decides them as real arithmetic does.      *)
(***************************************************************************)
EXTENDS Integers, Sequences, FiniteSets, TLC

VARIABLES
    \* geometry kernel called on its own
    geo_pc,             \* "init", "pip" (after _point_in_polygon), "dist"
    geo_poly,           \* the polygon argument
    geo_pt,             \* the point argument
    geo_inside,         \* result of _point_in_polygon on geo_poly
    geo_inside_closed,  \* result on geo_poly with its first vertex repeated
    geo_dist,           \* result of _distance_to_polygon_edge
    \* GEESatellite.create_grid_cells
    g_pc,               \* "call", "row" (outer while test), "col" (inner while test), "done"
    g_polygon,          \* argument polygon
    g_cell_size_km,     \* argument cell_size_km
    g_lat,              \* local lat
    g_lng,              \* local lng
    g_cell_id,          \* local cell_id
    g_cells,            \* local cells; the returned list once g_pc = "done"
    \* FeatureExtractor.extract_features_for_cells and
    \* GEESatellite.extract_features_for_cells
    p_pc,               \* next layer to run: "call", "proximity", "temporal", "topo",
                        \* "species", "derived"; "returned", "raised"; "gee_returned",
                        \* "gee_raised" for the GEESatellite method
    p_cells,            \* argument cells (dicts mutated in place by the layers)
    p_given,            \* the cells as they were passed to the first call
    p_polygon,          \* argument polygon
    p_park_boundary,    \* argument park_boundary; <<>> is None
    p_window,           \* date_start, date_end (and the moon phase of their midpoint)
    p_run,              \* completed runs of extract_features_for_cells
    p_first,            \* the features returned by the first run
    p_exc,              \* the call that raised, when p_pc = "raised"
    p_rng,              \* state of numpy's global random generator
    p_now_month,        \* datetime.now().month
    gee_result,         \* list returned by GEESatellite.extract_features_for_cells
    \* answers of the external capabilities, recorded when first asked
    w_images,           \* collection.size().getInfo()
    w_ndvi,             \* per cell: ndvi.sample(point, 30).first().get('NDVI').getInfo()
    w_moon,             \* ephem.Moon(middle_date)
    w_dem,              \* ee.Image('USGS/SRTMGL1_003') / ee.Terrain.slope(dem)
    w_terrain,          \* per cell: the elevation and slope samples
    \* DataService.get_context_data
    c_pc,               \* "none", "one", "two": calls made so far
    c_first,            \* arguments, date.today() and result of the first call
    c_second,           \* the same of the second call
    \* RiskPredictionModel.predict_batch and InsuranceRiskModel.predict
    r_pc,               \* "ready"; "batch_returned"; "insurance_returned",
                        \* "insurance_raised"; "categorized"
    r_score,            \* a score passed to the two categorizers, in tenths
    r_levels,           \* what _categorize_risk and categorize_risk_score returned
    r_cells,            \* predict_batch: cells_with_features
    r_raw,              \* what self.model.predict returned (<<>>: not invoked)
    r_predictions,      \* predict_batch: the returned list
    i_loaded,           \* InsuranceRiskModel: is_loaded and model is not None
    i_features,         \* InsuranceRiskModel.predict: features
    i_result,           \* InsuranceRiskModel.predict: value returned or exception
    \* InsuranceRiskModel singleton and get_model_instance
    _instance,          \* InsuranceRiskModel._instance: None, or its model and is_loaded
    _model_instance,    \* risk_model._model_instance: None, or its model and is_loaded
    m_loads,            \* artifacts that a load of the insurance model returned so far
    k_loads,            \* artifacts that RiskPredictionModel._load_model loaded so far
    m_last,             \* the last call and its outcome
    m_calls,            \* calls made so far
    \* GEESatellite.extract_features_for_cells, thumbnail workers (lines 182-260)
    t_pc,               \* main thread: "list", "submit", "collect", "extract", "returned"
    image_list,         \* number of images collection.toList(5) returned, ids 1..n
    future_to_img,      \* per submitted image its future: "running", "returned", "raised"
    t_yielded,          \* futures as_completed has yielded
    image_urls,         \* the thumbnails appended so far
    t_results,          \* the returned list
    \* analyze_risk_websocket (main.py:246-519)
    ws_pc,              \* handler: "receive", "send", "close", "except", "done"; "escaped"
    ws_client,          \* "connected" or "disconnected"
    ws_request,         \* what the client sent
    ws_step,            \* index of the next send_json of the handler's run
    ws_delivered,       \* the messages that reached the client, by step
    ws_cut,             \* messages delivered when the client disconnected, -1 before
    ws_complete,        \* data of the 'complete' message once built
    \* FeatureExtractor._extract_satellite_features on one sampled value
    v_pc,               \* "sample" before the cell is sampled, "recorded" after
    v_resp,             \* answer of ndvi.sample(point, 30).first().get('NDVI').getInfo()
    v_features,         \* the features recorded for the cell
    \* temporal and derived layers over many date windows
    d_pc,               \* "call", "temporal" (after _add_temporal_features), "derived"
    d_window,           \* date_start, date_end and the moon phase of their midpoint
    d_cells             \* the cells

geo_vars == <<geo_pc, geo_poly, geo_pt, geo_inside, geo_inside_closed, geo_dist>>

grid_vars == <<g_pc, g_polygon, g_cell_size_km, g_lat, g_lng, g_cell_id, g_cells>>

pipe_vars == <<p_pc, p_cells, p_given, p_polygon, p_park_boundary, p_window, p_run,
               p_first, p_exc, p_rng, p_now_month, gee_result, w_images, w_ndvi, w_moon,
               w_dem, w_terrain>>

ctx_vars == <<c_pc, c_first, c_second>>

risk_vars == <<r_pc, r_score, r_levels, r_cells, r_raw, r_predictions, i_loaded, i_features, i_result>>

load_vars == <<_instance, _model_instance, m_loads, k_loads, m_last, m_calls>>

thumb_vars == <<t_pc, image_list, future_to_img, t_yielded, image_urls, t_results>>

ws_vars == <<ws_pc, ws_client, ws_request, ws_step, ws_delivered, ws_cut, ws_complete>>

veg_vars == <<v_pc, v_resp, v_features>>

date_vars == <<d_pc, d_window, d_cells>>

vars == <<geo_vars, grid_vars, pipe_vars, ctx_vars, risk_vars, load_vars, thumb_vars, ws_vars, veg_vars, date_vars>>

-----------------------------------------------------------------------------
(* Fixed-point arithmetic standing for the float operations of the source. *)

Deg == 10 ^ 4          \* coordinate units per degree
Scale == 10 ^ 4        \* fixed-point scale of radians and of sin/cos values

Abs(x) == IF x < 0 THEN -x ELSE x
Min(a, b) == IF a <= b THEN a ELSE b
Max(a, b) == IF a >= b THEN a ELSE b
Sign(x) == IF x < 0 THEN -1 ELSE IF x > 0 THEN 1 ELSE 0

\* x / y rounded toward zero on the magnitude, symmetric in the sign of x
\* (\div alone floors, which would make f(-x) differ from -f(x)).
SDiv(x, y) == Sign(x) * (Abs(x) \div y)

\* math.radians: coordinate units -> radians * Scale  (pi/180 = 0.017453)
Radians(u) == SDiv(u * 1745, 10 ^ 5 * (Deg \div Scale))

\* math.sin, math.cos: Taylor polynomials on radians * Scale, |x| <= pi/2
SinS(x) ==
    LET x2 == (x * x) \div Scale
        x3 == SDiv(x2 * x, Scale)
        x5 == SDiv(x3 * x2, Scale)
        x7 == SDiv(x5 * x2, Scale)
    IN  x - SDiv(x3, 6) + SDiv(x5, 120) - SDiv(x7, 5040)

CosS(x) ==
    LET x2 == (x * x) \div Scale
        x4 == (x2 * x2) \div Scale
        x6 == (x4 * x2) \div Scale
    IN  Scale - (x2 \div 2) + (x4 \div 24) - (x6 \div 720)

\* math.sqrt on integers: the largest r with r*r <= n
RECURSIVE SqrtSearch(_, _, _)
SqrtSearch(n, lo, hi) ==
    IF lo >= hi THEN lo
    ELSE LET mid == (lo + hi + 1) \div 2
         IN  IF mid * mid <= n THEN SqrtSearch(n, mid, hi)
                               ELSE SqrtSearch(n, lo, mid - 1)

ISqrt(n) == SqrtSearch(n, 0, Min(n, 46340))

\* asin of x/Scale, scaled: the value of atan2(sqrt(a), sqrt(1-a)) for x = sqrt(a)
AsinS(x) ==
    LET x2 == (x * x) \div Scale
        x3 == (x2 * x) \div Scale
        x5 == (x3 * x2) \div Scale
        x7 == (x5 * x2) \div Scale
    IN  x + (x3 \div 6) + ((3 * x5) \div 40) + ((15 * x7) \div 336)

Pt(la, ln) == [lat |-> la, lng |-> ln]

-----------------------------------------------------------------------------
(* Geometry kernel.                                                        *)
(* A polygon is a sequence of points [lat, lng]; Python's polygon[k] is    *)
(* polygon[k + 1] here.                                                    *)

\* gee_satellite.py:112-113, `lat <= x_intersect` with
\*   x_intersect = (lng - p1_lng) * (p2_lat - p1_lat) / (p2_lng - p1_lng) + p1_lat
\* decided exactly.  Only evaluated when p1.lng # p2.lng (line 109 excludes
\* the other case, so the stale x_intersect of line 111 is never read).
LeqXIntersect(lat, lng, p1, p2) ==
    LET d   == p2.lng - p1.lng
        num == (lng - p1.lng) * (p2.lat - p1.lat)
    IN  IF d > 0 THEN (lat - p1.lat) * d <= num
                 ELSE (lat - p1.lat) * d >= num

\* One iteration of the loop of _point_in_polygon: the new value of `inside`.
CrossesEdge(lat, lng, p1, p2) ==
    /\ Min(p1.lng, p2.lng) < lng
    /\ lng <= Max(p1.lng, p2.lng)
    /\ lat <= Max(p1.lat, p2.lat)
    /\ (p1.lat = p2.lat \/ LeqXIntersect(lat, lng, p1, p2))

\* for i in range(1, n + 1): p2 = polygon[i % n]; ...; p1 = p2
RECURSIVE PointInPolygonLoop(_, _, _, _, _, _)
PointInPolygonLoop(i, n, p1, inside, pt, polygon) ==
    IF i > n THEN inside
    ELSE LET p2 == polygon[(i % n) + 1]
             toggled == IF CrossesEdge(pt.lat, pt.lng, p1, p2) THEN ~inside ELSE inside
         IN  PointInPolygonLoop(i + 1, n, p2, toggled, pt, polygon)

\* A loop that stops at the last listed vertex and never takes the closing edge.
PointInPolygonNoWrap(lat, lng, polygon) ==
    PointInPolygonLoop(1, Len(polygon) - 1, polygon[1], FALSE, Pt(lat, lng), polygon)

_point_in_polygon(lat, lng, polygon) ==
    PointInPolygonLoop(1, Len(polygon), polygon[1], FALSE, Pt(lat, lng), polygon)

\* FeatureExtractor._haversine_distance, in metres.
R == 6371000

_haversine_distance(lat1, lng1, lat2, lng2) ==
    LET phi1 == Radians(lat1)
        phi2 == Radians(lat2)
        delta_phi == Radians(lat2 - lat1)
        delta_lambda == Radians(lng2 - lng1)
        sp == SinS(SDiv(delta_phi, 2))
        sl == SinS(SDiv(delta_lambda, 2))
        cc == (CosS(phi1) * CosS(phi2)) \div Scale
        \* a * Scale^2; the order of the operations keeps the products in range
        a  == sp * sp + (IF sl * sl <= 200000 THEN (cc * (sl * sl)) \div Scale
                                              ELSE cc * ((sl * sl) \div Scale))
        c  == 2 * AsinS(ISqrt(a))
    IN  ((R \div 1000) * c) \div (Scale \div 1000)

\* A segment distance that takes the farther endpoint.
PointToSegmentFar(px, py, x1, y1, x2, y2) ==
    Max(_haversine_distance(px, py, x1, y1), _haversine_distance(px, py, x2, y2))

_point_to_segment_distance(px, py, x1, y1, x2, y2) ==
    LET dist1 == _haversine_distance(px, py, x1, y1)
        dist2 == _haversine_distance(px, py, x2, y2)
    IN  Min(dist1, dist2)

\* float('inf') of line 390
Inf == 2 ^ 30

RECURSIVE DistanceLoop(_, _, _, _, _)
DistanceLoop(i, min_distance, lat, lng, polygon) ==
    IF i > Len(polygon) THEN min_distance
    ELSE LET p1 == polygon[i]
             p2 == polygon[(i % Len(polygon)) + 1]
             dist == _point_to_segment_distance(lat, lng, p1.lat, p1.lng, p2.lat, p2.lng)
         IN  DistanceLoop(i + 1, Min(min_distance, dist), lat, lng, polygon)

_distance_to_polygon_edge(lat, lng, polygon) ==
    DistanceLoop(1, Inf, lat, lng, polygon)

-----------------------------------------------------------------------------
(* GEESatellite.create_grid_cells                                          *)

RECURSIVE SeqMin(_, _, _)
SeqMin(f, i, acc) == IF i > Len(f) THEN acc ELSE SeqMin(f, i + 1, Min(acc, f[i]))
RECURSIVE SeqMax(_, _, _)
SeqMax(f, i, acc) == IF i > Len(f) THEN acc ELSE SeqMax(f, i + 1, Max(acc, f[i]))

Lats(polygon) == [i \in 1..Len(polygon) |-> polygon[i].lat]
Lngs(polygon) == [i \in 1..Len(polygon) |-> polygon[i].lng]

\* lines 61-65
MinLat(polygon) == SeqMin(Lats(polygon), 2, polygon[1].lat)
MaxLat(polygon) == SeqMax(Lats(polygon), 2, polygon[1].lat)
MinLng(polygon) == SeqMin(Lngs(polygon), 2, polygon[1].lng)
MaxLng(polygon) == SeqMax(Lngs(polygon), 2, polygon[1].lng)

\* line 68: lat_step = cell_size_km / 111.0, in coordinate units
LatStep(cell_size_km) == SDiv(cell_size_km * Deg, 111)

\* line 69: lng_step = cell_size_km / (111.0 * cos(radians((min_lat + max_lat) / 2)))
LngStep(cell_size_km, polygon) ==
    LET mean == SDiv(MinLat(polygon) + MaxLat(polygon), 2)
    IN  SDiv(cell_size_km * Deg * 100, (111 * CosS(Radians(mean))) \div 100)

\* A tile centre placed on the tile's south-west corner.
CenterAtCorner(x, step) == x

\* lines 79-80: center = corner + step / 2
Center(x, step) == x + SDiv(step, 2)

\* Every tile is kept, whatever the point-in-polygon test says.
TileKeptAlways(center_lat, center_lng, polygon) == TRUE

\* line 83: the test that decides whether the tile is appended
TileKept(center_lat, center_lng, polygon) ==
    _point_in_polygon(center_lat, center_lng, polygon)

\* An id counter that advances on every tile visited.
CellIdAfterAnyTile(cell_id, kept) == cell_id + 1

\* line 92: cell_id += 1, inside the if of line 83
CellIdAfter(cell_id, kept) == IF kept THEN cell_id + 1 ELSE cell_id

\* lines 84-91; f'cell-{cell_id}' is the pair <<"cell", cell_id>>
Cell(cell_id, lat, lng, lat_step, lng_step) ==
    [id |-> <<"cell", cell_id>>,
     center |-> Pt(Center(lat, lat_step), Center(lng, lng_step)),
     bounds |-> [southWest |-> Pt(lat, lng),
                 northEast |-> Pt(lat + lat_step, lng + lng_step)]]

\* The scenario polygon [(0,35.0),(0,35.1),(0.1,35.1),(0.1,35.0)] (lat, lng).
ScenarioPolygon ==
    <<Pt(0, 35 * Deg), Pt(0, 35 * Deg + Deg \div 10),
      Pt(Deg \div 10, 35 * Deg + Deg \div 10), Pt(Deg \div 10, 35 * Deg)>>

-----------------------------------------------------------------------------
(* FeatureExtractor: the feature layers.                                   *)
(* A features dict is a function from key strings to values.  Units: ndvi  *)
(* in thousandths; distances and elevation in metres; slope and            *)
(* terrain_ruggedness in tenths; moon_illumination in hundredths;          *)
(* the reciprocal proxies (boundary_risk, water_attraction, access_ease)   *)
(* in 10^-9; isolation_score and seasonal_incident_rate in thousandths.    *)

\* the features of a cell no layer has touched yet (the key is absent)
EmptyDict == [k \in {} |-> 0]

\* An assignment that replaces the dict by the new keys alone.
DictReplace(d, new) == new

\* dict.update(new), and d[k] = v for the keys of new
DictUpdate(d, new) ==
    [k \in (DOMAIN d) \cup (DOMAIN new) |-> IF k \in DOMAIN new THEN new[k] ELSE d[k]]

\* datetime.strptime / datetime arithmetic on [y, m, d]: days since 1970-01-01
DaysFromCivil(date) ==
    LET y   == IF date.m <= 2 THEN date.y - 1 ELSE date.y
        era == y \div 400
        yoe == y - era * 400
        mp  == IF date.m > 2 THEN date.m - 3 ELSE date.m + 9
        doy == (153 * mp + 2) \div 5 + date.d - 1
        doe == yoe * 365 + yoe \div 4 - yoe \div 100 + doy
    IN  era * 146097 + doe - 719468

CivilFromDays(days) ==
    LET z   == days + 719468
        era == z \div 146097
        doe == z - era * 146097
        yoe == (doe - doe \div 1460 + doe \div 36524 - doe \div 146096) \div 365
        doy == doe - (365 * yoe + yoe \div 4 - yoe \div 100)
        mp  == (5 * doy + 2) \div 153
        d   == doy - (153 * mp + 2) \div 5 + 1
        m   == IF mp < 10 THEN mp + 3 ELSE mp - 9
        y   == yoe + era * 400
    IN  [y |-> IF m <= 2 THEN y + 1 ELSE y, m |-> m, d |-> d]

\* line 220: middle_date = start + (end - start) / 2 (the date part)
MiddleDay(date_start, date_end) ==
    DaysFromCivil(date_start) + (DaysFromCivil(date_end) - DaysFromCivil(date_start)) \div 2

\* line 242: datetime.weekday(), 0 = Monday (1970-01-01 was a Thursday)
Weekday(days) == (days + 3) % 7

\* A season table without the short rains of November.
SeasonLongRains(month) == IF month \in {4, 5} THEN "wet" ELSE "dry"

\* lines 227-239
Season(month) ==
    IF month \in {12, 1, 2, 3} THEN "dry"
    ELSE IF month \in {4, 5} THEN "wet"
    ELSE IF month \in {6, 7, 8, 9, 10} THEN "dry"
    ELSE "wet"

SeasonEncoded(month) ==
    IF month \in {12, 1, 2, 3} THEN 0
    ELSE IF month \in {4, 5} THEN 1
    ELSE IF month \in {6, 7, 8, 9, 10} THEN 0
    ELSE 1

\* lines 128-135
VegType(ndvi_value) ==
    IF ndvi_value < 200 THEN "sparse"
    ELSE IF ndvi_value < 400 THEN "scrub"
    ELSE IF ndvi_value < 600 THEN "grassland"
    ELSE "forest"

\* line 140: ['sparse', 'scrub', 'grassland', 'forest'].index(veg_type)
VegIndex(veg_type) ==
    CHOOSE i \in 0..3 : <<"sparse", "scrub", "grassland", "forest">>[i + 1] = veg_type

\* A zero-image default of NDVI 0 (bare ground) instead of the median 0.5.
SatelliteNoImagesBare == [ndvi |-> 0, vegetation_type |-> "sparse"]

\* lines 104-107: the features of a cell when image_count == 0
SatelliteNoImages == [ndvi |-> 500, vegetation_type |-> "grassland"]

\* lines 118-149: the features of a cell sampled from the composite.
\* resp is the answer of ndvi.sample(point, 30).first().get('NDVI').getInfo():
\* kind "error" (the call raises), "null" (None) or "value".
SatelliteSampled(resp) ==
    IF resp.kind = "error"
    THEN [ndvi |-> 500, vegetation_type |-> "grassland", vegetation_type_encoded |-> 2]
    ELSE LET ndvi_value == IF resp.kind = "value" /\ resp.value # 0 THEN resp.value ELSE 500
         IN  [ndvi |-> ndvi_value,
              vegetation_type |-> VegType(ndvi_value),
              vegetation_type_encoded |-> VegIndex(VegType(ndvi_value))]

\* numpy's global generator: a hidden state, advanced by every draw.
RngNext(state) == (5 * state + 3) % 32

\* np.random.uniform(lo, hi) for the generator in `state`
Uniform(state, lo, hi) == lo + ((hi - lo) * state) \div 32

\* lines 174-199, for one cell; rng is the generator state before the cell
ProximityFeatures(cell, boundary, rng) ==
    [dist_to_boundary |-> _distance_to_polygon_edge(cell.center.lat, cell.center.lng, boundary),
     dist_to_water |-> Uniform(rng, 500, 5000),
     dist_to_road |-> Uniform(RngNext(rng), 1000, 15000),
     dist_to_settlement |-> Uniform(RngNext(RngNext(rng)), 5000, 40000)]

\* lines 217-250; moon_phase is ephem.Moon(middle_date).phase, in percent
TemporalFeatures(date_start, date_end, moon_phase) ==
    LET middle == MiddleDay(date_start, date_end)
        month  == CivilFromDays(middle).m
    IN  [moon_illumination |-> moon_phase,
         season |-> Season(month),
         season_encoded |-> SeasonEncoded(month),
         day_of_week |-> Weekday(middle)]

\* A clip that lets every value through.
NoClip(x, lo, hi) == x

\* np.clip(x, lo, hi)
Clip(x, lo, hi) == IF x < lo THEN lo ELSE IF x > hi THEN hi ELSE x

\* lines 475-482, slope and result in tenths: (slope / 60) * 10, clipped to
\* [0, 10], rounded to one decimal by the caller (line 288)
_calculate_ruggedness(slope) == Clip((2 * slope + 6) \div 12, 0, 100)

\* A terrain layer whose error branch writes zeros instead of the defaults.
TopoFeaturesZeroOnError(resp) ==
    IF resp.kind = "error"
    THEN [elevation |-> 0, slope |-> 0, terrain_ruggedness |-> 0]
    ELSE [elevation |-> resp.elevation, slope |-> resp.slope,
          terrain_ruggedness |-> _calculate_ruggedness(resp.slope)]

\* lines 272-297, for one cell.  resp is the answer of the two terrain
\* samples: kind "error" (either raises) or "ok" with elevation and slope.
TopoFeatures(resp) ==
    IF resp.kind = "error"
    THEN [elevation |-> 1000, slope |-> 100, terrain_ruggedness |-> 50]
    ELSE LET elevation   == IF resp.elevation # 0 THEN resp.elevation ELSE 1000
             slope_value == IF resp.slope # 0 THEN resp.slope ELSE 100
         IN  [elevation |-> elevation,
              slope |-> slope_value,
              terrain_ruggedness |-> _calculate_ruggedness(slope_value)]

\* lines 310-340, for one cell; now_month is datetime.now().month
SpeciesFeatures(cell, now_month) ==
    LET lat == cell.center.lat
        lng == cell.center.lng
        dist_to_water == IF "dist_to_water" \in DOMAIN cell.features
                            THEN cell.features["dist_to_water"] ELSE 5000
    IN  [elephant_migration_route |->
             IF (-5 * Deg) \div 2 < lat /\ lat < (-3 * Deg) \div 2
                /\ 37 * Deg < lng /\ lng < 38 * Deg THEN 1 ELSE 0,
         breeding_season |-> IF now_month \in {3, 4, 5, 11, 12} THEN 1 ELSE 0,
         watering_pattern |-> IF dist_to_water < 2000 THEN "regular"
                              ELSE IF dist_to_water < 5000 THEN "seasonal" ELSE "rare",
         watering_pattern_encoded |-> IF dist_to_water < 2000 THEN 0
                                      ELSE IF dist_to_water < 5000 THEN 1 ELSE 2]

\* lines 352-374, for one cell whose features hold the keys read here
DerivedFeatures(features) ==
    [boundary_risk |-> (10 ^ 9) \div (features["dist_to_boundary"] + 100),
     water_attraction |-> (10 ^ 9) \div (features["dist_to_water"] + 50),
     access_ease |-> (10 ^ 9) \div (features["dist_to_road"] + 200),
     isolation_score |-> (features["dist_to_settlement"] + features["dist_to_road"]) \div 2,
     dense_vegetation |-> IF features["ndvi"] > 500 THEN 1 ELSE 0,
     dry_season |-> IF features["season"] = "dry" THEN 1 ELSE 0,
     is_weekend |-> IF features["day_of_week"] \in {5, 6} THEN 1 ELSE 0,
     incidents_5km_radius |-> 0,
     days_since_last_incident |-> 180,
     seasonal_incident_rate |-> 50,
     incident_density |-> 0]

\* The keys read by _calculate_derived_features (a missing one is a KeyError).
DerivedInputs ==
    {"dist_to_boundary", "dist_to_water", "dist_to_road", "dist_to_settlement",
     "ndvi", "season", "day_of_week"}

-----------------------------------------------------------------------------
(* Reference geometry, used to state the contracts of the kernel.          *)

Cross(a, b, c) ==
    (b.lat - a.lat) * (c.lng - a.lng) - (b.lng - a.lng) * (c.lat - a.lat)

OnSegment(a, b, p) ==
    /\ Cross(a, b, p) = 0
    /\ Min(a.lat, b.lat) <= p.lat /\ p.lat <= Max(a.lat, b.lat)
    /\ Min(a.lng, b.lng) <= p.lng /\ p.lng <= Max(a.lng, b.lng)

Edge(polygon, i) == <<polygon[i], polygon[(i % Len(polygon)) + 1]>>

OnBoundary(p, polygon) ==
    \E i \in 1..Len(polygon) : OnSegment(Edge(polygon, i)[1], Edge(polygon, i)[2], p)

\* Winding number of the polygon around p, by signed crossings of the ray
\* from p toward increasing longitude.
RECURSIVE WindingSum(_, _, _)
WindingSum(i, p, polygon) ==
    IF i > Len(polygon) THEN 0
    ELSE LET a == Edge(polygon, i)[1]
             b == Edge(polygon, i)[2]
             w == IF a.lat <= p.lat /\ b.lat > p.lat /\ Cross(a, b, p) > 0 THEN 1
                  ELSE IF a.lat > p.lat /\ b.lat <= p.lat /\ Cross(a, b, p) < 0 THEN -1
                  ELSE 0
         IN  w + WindingSum(i + 1, p, polygon)

Interior(p, polygon) == WindingSum(1, p, polygon) # 0

SegmentsMeet(a, b, c, d) ==
    \/ /\ Sign(Cross(a, b, c)) * Sign(Cross(a, b, d)) < 0
       /\ Sign(Cross(c, d, a)) * Sign(Cross(c, d, b)) < 0
    \/ OnSegment(a, b, c) \/ OnSegment(a, b, d)
    \/ OnSegment(c, d, a) \/ OnSegment(c, d, b)

\* Edges x-s and s-y leave s in the same direction (they overlap).
FoldsBack(x, s, y) ==
    /\ Cross(x, s, y) = 0
    /\ (x.lat - s.lat) * (y.lat - s.lat) + (x.lng - s.lng) * (y.lng - s.lng) > 0

\* A simple polygon: distinct vertices, adjacent edges meet only at their
\* common vertex, other edges do not meet.
IsSimple(polygon) ==
    LET n == Len(polygon)
    IN  /\ n >= 3
        /\ \A i, j \in 1..n : i < j => polygon[i] # polygon[j]
        /\ \A i \in 1..n :
              ~FoldsBack(polygon[i], polygon[(i % n) + 1], polygon[((i + 1) % n) + 1])
        /\ \A i, j \in 1..n :
              (i < j /\ j # i + 1 /\ ~(i = 1 /\ j = n)) =>
                  ~SegmentsMeet(Edge(polygon, i)[1], Edge(polygon, i)[2],
                                Edge(polygon, j)[1], Edge(polygon, j)[2])

Closed(polygon) == polygon \o <<polygon[1]>>

-----------------------------------------------------------------------------
(* Inputs of the geometry kernel.                                          *)

MaxVertices == 4        \* polygons have 3..MaxVertices vertices

\* vertices on a half-degree lattice around (0.5 N, 35.5 E)
LatticeLats == {0, Deg \div 2, Deg}
LatticeLngs == {35 * Deg, 35 * Deg + Deg \div 2, 36 * Deg}
LatticePoints == {Pt(la, ln) : la \in LatticeLats, ln \in LatticeLngs}

\* query points on the quarter-degree lattice, one step beyond the vertices
QueryPoints ==
    {Pt(i * (Deg \div 4) - Deg \div 4, 35 * Deg + j * (Deg \div 4) - Deg \div 4) :
        i \in 0..6, j \in 0..6}

\* distance queries: every lattice point (so a query can sit on a vertex) and
\* the four quarter-lattice points around the centre
DistanceQueryPoints ==
    LatticePoints \cup
    {Pt(Deg \div 2 + i * (Deg \div 4), 35 * Deg + Deg \div 2 + j * (Deg \div 4)) :
        i \in {-1, 1}, j \in {-1, 1}}

SimplePolygons ==
    {p \in UNION {[1..n -> LatticePoints] : n \in 3..MaxVertices} : IsSimple(p)}

\* A lattice polygon moved north by dlat (to latitudes where cos < 1).
ShiftNorth(polygon, dlat) ==
    [i \in 1..Len(polygon) |-> Pt(polygon[i].lat + dlat, polygon[i].lng)]

\* Grid inputs: the scenario polygon with cell sizes 5, 10 and 20 km; the
\* lattice polygons (about 55 to 110 km across) with cells of 40 and 60 km;
\* the lattice triangles moved to 60 N with cells of 40 km.
GridInputs ==
    {[polygon |-> ScenarioPolygon, cell_size_km |-> s] : s \in {5, 10, 20}}
    \cup {[polygon |-> p, cell_size_km |-> s] : p \in SimplePolygons, s \in {40, 60}}
    \cup {[polygon |-> ShiftNorth(p, 60 * Deg), cell_size_km |-> 40] :
             p \in {q \in SimplePolygons : Len(q) = 3}}

-----------------------------------------------------------------------------
(* The geometry kernel as a state machine: one call per step.              *)

\* The parts of the program that a specification leaves alone.
IdleGeo ==
    /\ geo_pc = "idle" /\ geo_poly = <<>> /\ geo_pt = Pt(0, 0)
    /\ geo_inside = FALSE /\ geo_inside_closed = FALSE /\ geo_dist = 0

IdleGrid ==
    /\ g_pc = "idle" /\ g_polygon = <<>> /\ g_cell_size_km = 0
    /\ g_lat = 0 /\ g_lng = 0 /\ g_cell_id = 0 /\ g_cells = <<>>

IdlePipe ==
    /\ p_pc = "idle" /\ p_cells = <<>> /\ p_given = <<>> /\ p_polygon = <<>> /\ p_park_boundary = <<>>
    /\ p_window = <<>> /\ p_run = 0 /\ p_first = <<>> /\ p_exc = "" /\ p_rng = 0
    /\ p_now_month = 1 /\ gee_result = <<>>
    /\ w_images = <<>> /\ w_ndvi = <<>> /\ w_moon = "" /\ w_dem = "" /\ w_terrain = <<>>

IdleCtx == c_pc = "idle" /\ c_first = <<>> /\ c_second = <<>>

IdleRisk ==
    /\ r_pc = "idle" /\ r_score = 0 /\ r_levels = <<>> /\ r_cells = <<>> /\ r_raw = <<>> /\ r_predictions = <<>>
    /\ i_loaded = FALSE /\ i_features = <<>> /\ i_result = <<>>

IdleLoad ==
    /\ _instance = <<>> /\ _model_instance = <<>> /\ m_loads = {} /\ k_loads = {} /\ m_last = <<>> /\ m_calls = 0

IdleThumbs ==
    /\ t_pc = "idle" /\ image_list = 0 /\ future_to_img = <<>> /\ t_yielded = {} /\ image_urls = <<>> /\ t_results = <<>>

IdleWs ==
    /\ ws_pc = "idle" /\ ws_client = "connected" /\ ws_request = <<>> /\ ws_step = 0 /\ ws_delivered = <<>> /\ ws_cut = -1 /\ ws_complete = <<>>

IdleVeg ==
    /\ v_pc = "idle" /\ v_resp = <<>> /\ v_features = <<>>

IdleDates ==
    /\ d_pc = "idle" /\ d_window = <<>> /\ d_cells = <<>>

NotGeo == <<grid_vars, pipe_vars, ctx_vars, risk_vars, load_vars, thumb_vars, ws_vars, veg_vars, date_vars>>
NotGrid == <<geo_vars, pipe_vars, ctx_vars, risk_vars, load_vars, thumb_vars, ws_vars, veg_vars, date_vars>>
NotPipe == <<geo_vars, grid_vars, ctx_vars, risk_vars, load_vars, thumb_vars, ws_vars, veg_vars, date_vars>>
NotCtx == <<geo_vars, grid_vars, pipe_vars, risk_vars, load_vars, thumb_vars, ws_vars, veg_vars, date_vars>>
NotRisk == <<geo_vars, grid_vars, pipe_vars, ctx_vars, load_vars, thumb_vars, ws_vars, veg_vars, date_vars>>
NotLoad == <<geo_vars, grid_vars, pipe_vars, ctx_vars, risk_vars, thumb_vars, ws_vars, veg_vars, date_vars>>
NotThumbs == <<geo_vars, grid_vars, pipe_vars, ctx_vars, risk_vars, load_vars, ws_vars, veg_vars, date_vars>>
NotWs == <<geo_vars, grid_vars, pipe_vars, ctx_vars, risk_vars, load_vars, thumb_vars, veg_vars, date_vars>>
NotVeg == <<geo_vars, grid_vars, pipe_vars, ctx_vars, risk_vars, load_vars, thumb_vars, ws_vars, date_vars>>
NotDates == <<geo_vars, grid_vars, pipe_vars, ctx_vars, risk_vars, load_vars, thumb_vars, ws_vars, veg_vars>>

GeoInit ==
    /\ IdleGrid /\ IdlePipe /\ IdleCtx /\ IdleRisk /\ IdleLoad /\ IdleThumbs /\ IdleWs /\ IdleVeg /\ IdleDates
    /\ geo_pc = "init"
    /\ geo_poly \in SimplePolygons
    /\ geo_pt = Pt(0, 0)
    /\ geo_inside = FALSE
    /\ geo_inside_closed = FALSE
    /\ geo_dist = 0

PointInPolygonCall ==
    \E p \in QueryPoints :
        /\ geo_pc = "init"
        /\ geo_pc' = "pip"
        /\ geo_pt' = p
        /\ geo_inside' = _point_in_polygon(p.lat, p.lng, geo_poly)
        /\ geo_inside_closed' = _point_in_polygon(p.lat, p.lng, Closed(geo_poly))
        /\ UNCHANGED <<geo_poly, geo_dist>>
        /\ UNCHANGED NotGeo

DistanceCall ==
    \E p \in DistanceQueryPoints :
        /\ geo_pc = "init"
        /\ geo_pc' = "dist"
        /\ geo_pt' = p
        /\ geo_dist' = _distance_to_polygon_edge(p.lat, p.lng, geo_poly)
        /\ UNCHANGED <<geo_poly, geo_inside, geo_inside_closed>>
        /\ UNCHANGED NotGeo

GeoNext == PointInPolygonCall \/ DistanceCall

SpecGeo == GeoInit /\ [][GeoNext]_vars

-----------------------------------------------------------------------------
(* Claims on the geometry kernel.                                          *)

\* C4: for a simple polygon and a point strictly inside or strictly outside
\* it, _point_in_polygon answers true exactly when the point is interior,
\* and answers the same when the vertex list repeats its first vertex.
PointInPolygonCorrect ==
    (geo_pc = "pip" /\ ~OnBoundary(geo_pt, geo_poly)) =>
        /\ geo_inside = Interior(geo_pt, geo_poly)
        /\ geo_inside_closed = geo_inside

\* an interior point of a non-convex quadrilateral has been classified
PointInPolygonWitness ==
    /\ geo_pc = "pip"
    /\ ~OnBoundary(geo_pt, geo_poly)
    /\ geo_inside
    /\ Len(geo_poly) = 4
    /\ \E i \in 1..4 : Cross(geo_poly[i], geo_poly[(i % 4) + 1], geo_poly[((i + 1) % 4) + 1]) > 0
    /\ \E i \in 1..4 : Cross(geo_poly[i], geo_poly[(i % 4) + 1], geo_poly[((i + 1) % 4) + 1]) < 0

VertexDistances(p, polygon) ==
    {_haversine_distance(p.lat, p.lng, polygon[i].lat, polygon[i].lng) : i \in 1..Len(polygon)}

-----------------------------------------------------------------------------
(* create_grid_cells as a state machine: one tile per step.                *)

GridInit ==
    /\ IdleGeo /\ IdlePipe /\ IdleCtx /\ IdleRisk /\ IdleLoad /\ IdleThumbs /\ IdleWs /\ IdleVeg /\ IdleDates
    /\ g_pc = "call"
    /\ \E in \in GridInputs :
          /\ g_polygon = in.polygon
          /\ g_cell_size_km = in.cell_size_km
    /\ g_lat = 0
    /\ g_lng = 0
    /\ g_cell_id = 0
    /\ g_cells = <<>>

\* lines 60-75: bounding box, steps, cells = [], cell_id = 0, lat = min_lat
GridEnter ==
    /\ g_pc = "call"
    /\ g_pc' = "row"
    /\ g_lat' = MinLat(g_polygon)
    /\ g_cells' = <<>>
    /\ g_cell_id' = 0
    /\ UNCHANGED <<g_polygon, g_cell_size_km, g_lng>>
    /\ UNCHANGED NotGrid

\* line 76, the outer while test: enter the row (line 77) or return (line 97)
GridRow ==
    /\ g_pc = "row"
    /\ IF g_lat < MaxLat(g_polygon)
          THEN g_pc' = "col" /\ g_lng' = MinLng(g_polygon)
          ELSE g_pc' = "done" /\ UNCHANGED g_lng
    /\ UNCHANGED <<g_polygon, g_cell_size_km, g_lat, g_cell_id, g_cells>>
    /\ UNCHANGED NotGrid

\* lines 78-94: one pass of the inner loop body
GridTile ==
    /\ g_pc = "col"
    /\ g_lng < MaxLng(g_polygon)
    /\ LET lat_step == LatStep(g_cell_size_km)
           lng_step == LngStep(g_cell_size_km, g_polygon)
           kept == TileKept(Center(g_lat, lat_step), Center(g_lng, lng_step), g_polygon)
       IN  /\ g_cells' = IF kept
                            THEN Append(g_cells, Cell(g_cell_id, g_lat, g_lng, lat_step, lng_step))
                            ELSE g_cells
           /\ g_cell_id' = CellIdAfter(g_cell_id, kept)
           /\ g_lng' = g_lng + lng_step
    /\ UNCHANGED <<g_pc, g_polygon, g_cell_size_km, g_lat>>
    /\ UNCHANGED NotGrid

\* line 78 false, line 95: lat += lat_step
GridRowEnd ==
    /\ g_pc = "col"
    /\ ~(g_lng < MaxLng(g_polygon))
    /\ g_lat' = g_lat + LatStep(g_cell_size_km)
    /\ g_pc' = "row"
    /\ UNCHANGED <<g_polygon, g_cell_size_km, g_lng, g_cell_id, g_cells>>
    /\ UNCHANGED NotGrid

GridNext == GridEnter \/ GridRow \/ GridTile \/ GridRowEnd

SpecGrid == GridInit /\ [][GridNext]_vars

-----------------------------------------------------------------------------
(* Claims on the grid builder.                                             *)

\* C1: every cell emitted by create_grid_cells has a centre for which
\* _point_in_polygon(centre, polygon) is true.
CellCentersInside ==
    \A i \in 1..Len(g_cells) :
        _point_in_polygon(g_cells[i].center.lat, g_cells[i].center.lng, g_polygon)

\* the grid is complete, cells were emitted, and the first tile of the
\* bounding box was rejected
CellCentersInsideWitness ==
    /\ g_pc = "done"
    /\ Len(g_cells) >= 2
    /\ g_cells[1].bounds.southWest # Pt(MinLat(g_polygon), MinLng(g_polygon))

ScenarioCenters ==
    LET a == (5 * Deg) \div 222       \* 0.0225 degree
        b == (15 * Deg) \div 222      \* 0.0676 degree
    IN  <<Pt(a, 35 * Deg + a), Pt(a, 35 * Deg + b),
          Pt(b, 35 * Deg + a), Pt(b, 35 * Deg + b)>>

ScenarioDone ==
    g_pc = "done" /\ g_polygon = ScenarioPolygon /\ g_cell_size_km = 5

\* C2 as claimed: the scenario polygon with 5 km cells yields exactly 1 cell,
\* with its centre near (0.05, 35.05) (within 0.01 degree).
ScenarioOneCell ==
    ScenarioDone =>
        /\ Len(g_cells) = 1
        /\ Abs(g_cells[1].center.lat - Deg \div 20) <= Deg \div 100
        /\ Abs(g_cells[1].center.lng - (35 * Deg + Deg \div 20)) <= Deg \div 100

\* C2 as amended: the scenario polygon (0.1 degree, about 11 km, across) with
\* 5 km cells (0.045 degree) yields exactly 4 cells, a 2 x 2 block with
\* centres at 0.0225 and 0.0676 degree from the south-west corner.
ScenarioFourCells ==
    ScenarioDone =>
        /\ Len(g_cells) = 4
        /\ \A i \in 1..4 :
              /\ Abs(g_cells[i].center.lat - ScenarioCenters[i].lat) <= 2
              /\ Abs(g_cells[i].center.lng - ScenarioCenters[i].lng) <= 2

ScenarioWitness == ScenarioDone /\ Len(g_cells) = 4

RowMajorBefore(c, d) ==
    \/ c.bounds.southWest.lat < d.bounds.southWest.lat
    \/ /\ c.bounds.southWest.lat = d.bounds.southWest.lat
       /\ c.bounds.southWest.lng < d.bounds.southWest.lng

\* C3: the cells carry the ids cell-0 .. cell-(k-1) without gap or repeat, in
\* row-major generation order; a rejected tile consumes no id.
SequentialIds ==
    /\ \A i \in 1..Len(g_cells) : g_cells[i].id = <<"cell", i - 1>>
    /\ \A i, j \in 1..Len(g_cells) : i < j => RowMajorBefore(g_cells[i], g_cells[j])
    /\ g_pc # "idle" => g_cell_id = Len(g_cells)

\* a finished grid of at least 3 cells in 2 rows whose first tile was rejected
SequentialIdsWitness ==
    /\ g_pc = "done"
    /\ Len(g_cells) >= 3
    /\ g_cells[1].bounds.southWest # Pt(MinLat(g_polygon), MinLng(g_polygon))
    /\ g_cells[1].bounds.southWest.lat < g_cells[Len(g_cells)].bounds.southWest.lat

-----------------------------------------------------------------------------
(* Inputs of the feature pipeline: the fixtures of test_feature_extractor. *)

MaxRuns == 2            \* calls of extract_features_for_cells on the same cells

Coord(whole, hundredths) == whole * Deg + hundredths * (Deg \div 100)

SampleCell1 ==
    [id |-> "cell-001", center |-> Pt(Coord(-2, -80), Coord(38, 90)), features |-> EmptyDict]
SampleCell2 ==
    [id |-> "cell-002", center |-> Pt(Coord(-2, -85), Coord(38, 95)), features |-> EmptyDict]
\* a cell inside the Amboseli-Tsavo corridor of line 316
CorridorCell ==
    [id |-> "cell-003", center |-> Pt(Coord(-2, 0), Coord(37, 50)), features |-> EmptyDict]

CellLists == {<<>>, <<SampleCell1>>, <<CorridorCell>>, <<SampleCell1, SampleCell2>>}

SamplePolygon ==
    <<Pt(Coord(-2, -80), Coord(38, 90)), Pt(Coord(-2, -80), Coord(39, 0)),
      Pt(Coord(-2, -90), Coord(39, 0)), Pt(Coord(-2, -90), Coord(38, 90)),
      Pt(Coord(-2, -80), Coord(38, 90))>>

ParkBoundary ==
    <<Pt(Coord(-3, 0), Coord(38, 80)), Pt(Coord(-3, 0), Coord(39, 20)),
      Pt(Coord(-2, -60), Coord(39, 20)), Pt(Coord(-2, -60), Coord(38, 80)),
      Pt(Coord(-3, 0), Coord(38, 80))>>

Date(y, m, d) == [y |-> y, m |-> m, d |-> d]

\* date windows, each with the answer of the ephemeris for its midpoint:
\* midpoint 2024-07-01 (Monday, dry), 2024-04-14 (Sunday, wet),
\* 2023-12-30 (Saturday, dry)
DateWindows ==
    {[date_start |-> Date(2024, 1, 1), date_end |-> Date(2024, 12, 31), moon_phase |-> 23],
     [date_start |-> Date(2024, 4, 1), date_end |-> Date(2024, 4, 27), moon_phase |-> 38],
     [date_start |-> Date(2023, 12, 20), date_end |-> Date(2024, 1, 10), moon_phase |-> 88]}

\* answers of the imagery collection query: it raises, or reports a count
ImageResponses ==
    {[kind |-> "error", count |-> 0], [kind |-> "ok", count |-> 0], [kind |-> "ok", count |-> 2]}

NdviResponses ==
    {[kind |-> "error", value |-> 0], [kind |-> "null", value |-> 0],
     [kind |-> "value", value |-> 300], [kind |-> "value", value |-> 700]}

TerrainResponses ==
    {[kind |-> "error", elevation |-> 0, slope |-> 0],
     [kind |-> "ok", elevation |-> 0, slope |-> 0],
     [kind |-> "ok", elevation |-> 1500, slope |-> 300],
     [kind |-> "ok", elevation |-> 2200, slope |-> 750]}

\* The answer of a capability: the recorded one if it was asked before with
\* the same arguments, else any of its possible answers.
Ask(recorded, unasked, answers) == IF recorded = unasked THEN answers ELSE {recorded}

-----------------------------------------------------------------------------
(* FeatureExtractor.extract_features_for_cells: one layer per step.        *)

PipeInit ==
    /\ IdleGeo /\ IdleGrid /\ IdleCtx /\ IdleRisk /\ IdleLoad /\ IdleThumbs /\ IdleWs /\ IdleVeg /\ IdleDates
    /\ p_pc = "call"
    /\ p_cells \in CellLists
    /\ p_given = p_cells
    /\ p_polygon = SamplePolygon
    /\ p_park_boundary \in {<<>>, ParkBoundary}
    /\ p_window \in DateWindows
    /\ p_run = 0
    /\ p_first = <<>>
    /\ p_exc = ""
    /\ p_rng \in {0, 13}
    /\ p_now_month = 5
    /\ gee_result = <<>>
    /\ w_images = <<>>
    /\ w_ndvi = <<>>
    /\ w_moon = ""
    /\ w_dem = ""
    /\ w_terrain = <<>>

SetFeatures(cells, f) == [i \in 1..Len(cells) |-> [cells[i] EXCEPT !.features = f[i]]]

MergeFeatures(cells, f) ==
    [i \in 1..Len(cells) |-> [cells[i] EXCEPT !.features = DictUpdate(@, f[i])]]

Raise(what) ==
    /\ p_pc' = "raised"
    /\ p_exc' = what

\* lines 74-153: _extract_satellite_features, called at line 49
ExtractSatelliteFeatures ==
    /\ p_pc \in {"call", "returned"}
    /\ p_run < MaxRuns
    /\ \E img \in Ask(w_images, <<>>, ImageResponses) :
          /\ w_images' = img
          /\ IF img.kind = "error"
                THEN /\ Raise("collection.size().getInfo()")
                     /\ UNCHANGED <<p_cells, w_ndvi>>
                ELSE IF img.count = 0
                THEN /\ p_cells' = SetFeatures(p_cells, [i \in 1..Len(p_cells) |-> SatelliteNoImages])
                     /\ p_pc' = "proximity"
                     /\ UNCHANGED <<p_exc, w_ndvi>>
                ELSE \E nd \in Ask(w_ndvi, <<>>, [1..Len(p_cells) -> NdviResponses]) :
                     /\ w_ndvi' = nd
                     /\ p_cells' = SetFeatures(p_cells,
                                       [i \in 1..Len(p_cells) |-> SatelliteSampled(nd[i])])
                     /\ p_pc' = "proximity"
                     /\ UNCHANGED p_exc
    /\ UNCHANGED <<p_given, p_polygon, p_park_boundary, p_window, p_run, p_first, p_rng,
                   p_now_month, gee_result, w_moon,
                   w_dem, w_terrain>>
    /\ UNCHANGED NotPipe

\* the generator state after n draws
RECURSIVE RngAfter(_, _)
RngAfter(state, n) == IF n = 0 THEN state ELSE RngAfter(RngNext(state), n - 1)

\* lines 155-201: _calculate_proximity_features, called at line 52
CalculateProximityFeatures ==
    /\ p_pc = "proximity"
    /\ LET boundary == IF p_park_boundary = <<>> THEN p_polygon ELSE p_park_boundary
       IN  p_cells' = MergeFeatures(p_cells,
               [i \in 1..Len(p_cells) |->
                   ProximityFeatures(p_cells[i], boundary, RngAfter(p_rng, 3 * (i - 1)))])
    /\ p_rng' = RngAfter(p_rng, 3 * Len(p_cells))
    /\ p_pc' = "temporal"
    /\ UNCHANGED <<p_given, p_polygon, p_park_boundary, p_window, p_run, p_first, p_exc,
                   p_now_month, gee_result, w_images, w_ndvi, w_moon,
                   w_dem, w_terrain>>
    /\ UNCHANGED NotPipe

\* lines 203-252: _add_temporal_features, called at line 57
AddTemporalFeatures ==
    /\ p_pc = "temporal"
    /\ \E moon \in Ask(w_moon, "", {"ok", "error"}) :
          /\ w_moon' = moon
          /\ IF moon = "error"
                THEN /\ Raise("ephem.Moon(middle_date)")
                     /\ UNCHANGED p_cells
                ELSE /\ p_cells' = MergeFeatures(p_cells,
                            [i \in 1..Len(p_cells) |->
                                TemporalFeatures(p_window.date_start, p_window.date_end,
                                                 p_window.moon_phase)])
                     /\ p_pc' = "topo"
                     /\ UNCHANGED p_exc
    /\ UNCHANGED <<p_given, p_polygon, p_park_boundary, p_window, p_run, p_first, p_rng,
                   p_now_month, gee_result, w_images, w_ndvi, w_dem, w_terrain>>
    /\ UNCHANGED NotPipe

\* lines 254-299: _extract_topographical_features, called at line 62
ExtractTopographicalFeatures ==
    /\ p_pc = "topo"
    /\ \E dem \in Ask(w_dem, "", {"ok", "error"}) :
          /\ w_dem' = dem
          /\ IF dem = "error"
                THEN /\ Raise("ee.Image('USGS/SRTMGL1_003')")
                     /\ UNCHANGED <<p_cells, w_terrain>>
                ELSE \E tr \in Ask(w_terrain, <<>>, [1..Len(p_cells) -> TerrainResponses]) :
                     /\ w_terrain' = tr
                     /\ p_cells' = MergeFeatures(p_cells,
                                       [i \in 1..Len(p_cells) |-> TopoFeatures(tr[i])])
                     /\ p_pc' = "species"
                     /\ UNCHANGED p_exc
    /\ UNCHANGED <<p_given, p_polygon, p_park_boundary, p_window, p_run, p_first, p_rng,
                   p_now_month, gee_result, w_images, w_ndvi, w_moon>>
    /\ UNCHANGED NotPipe

\* lines 301-342: _add_species_features, called at line 65
AddSpeciesFeatures ==
    /\ p_pc = "species"
    /\ p_cells' = MergeFeatures(p_cells,
           [i \in 1..Len(p_cells) |-> SpeciesFeatures(p_cells[i], p_now_month)])
    /\ p_pc' = "derived"
    /\ UNCHANGED <<p_given, p_polygon, p_park_boundary, p_window, p_run, p_first, p_exc, p_rng,
                   p_now_month, gee_result, w_images, w_ndvi, w_moon,
                   w_dem, w_terrain>>
    /\ UNCHANGED NotPipe

FeaturesOf(cells) == [i \in 1..Len(cells) |-> cells[i].features]

\* lines 344-376: _calculate_derived_features, called at line 68, and the
\* return of line 72
CalculateDerivedFeatures ==
    /\ p_pc = "derived"
    /\ IF \E i \in 1..Len(p_cells) : ~(DerivedInputs \subseteq DOMAIN p_cells[i].features)
          THEN /\ Raise("KeyError")
               /\ UNCHANGED <<p_cells, p_run, p_first>>
          ELSE LET done == MergeFeatures(p_cells,
                               [i \in 1..Len(p_cells) |-> DerivedFeatures(p_cells[i].features)])
               IN  /\ p_cells' = done
                   /\ p_pc' = "returned"
                   /\ p_run' = p_run + 1
                   /\ p_first' = IF p_run = 0 THEN FeaturesOf(done) ELSE p_first
                   /\ UNCHANGED p_exc
    /\ UNCHANGED <<p_given, p_polygon, p_park_boundary, p_window, p_rng,
                   p_now_month, gee_result, w_images, w_ndvi, w_moon,
                   w_dem, w_terrain>>
    /\ UNCHANGED NotPipe

\* The wall clock passes from May to June between two runs.
MonthPasses ==
    /\ p_pc = "returned"
    /\ p_now_month = 5
    /\ p_now_month' = 6
    /\ UNCHANGED <<p_pc, p_cells, p_given, p_polygon, p_park_boundary, p_window, p_run, p_first,
                   p_exc, p_rng, gee_result, w_images, w_ndvi, w_moon,
                   w_dem, w_terrain>>
    /\ UNCHANGED NotPipe

-----------------------------------------------------------------------------
(* GEESatellite.extract_features_for_cells (gee_satellite.py:134-260)      *)

NoneValue == <<>>       \* Python None; a present value v is <<v>>

\* Thumbnails collected at lines 209-220: the images whose request succeeded,
\* in completion order (none if line 186 raises).
ThumbnailLists(count) ==
    LET n == Min(count, 5)
    IN  {t \in UNION {[1..m -> 1..n] : m \in 0..n} :
            \A i, j \in 1..Len(t) : i # j => t[i] # t[j]}

Thumbnail(img_id) == [id |-> img_id, url |-> <<"thumb", img_id>>]

\* lines 230-253: features of one cell
GeeFeatures(count, thumbs, resp) ==
    [image_count |-> count,
     image_urls |-> [i \in 1..Len(thumbs) |-> Thumbnail(thumbs[i])],
     ndvi |-> IF resp.kind = "value" /\ resp.value # 0 THEN <<resp.value>> ELSE NoneValue]

GeeExtractFeatures ==
    /\ p_pc = "call"
    /\ p_run = 0
    /\ \E img \in ImageResponses :
          /\ w_images' = img
          /\ IF img.kind = "error"
                THEN /\ p_pc' = "gee_raised"
                     /\ p_exc' = "collection.size().getInfo()"
                     /\ UNCHANGED <<gee_result, w_ndvi>>
                ELSE IF img.count = 0
                THEN /\ gee_result' = SetFeatures(p_cells,
                            [i \in 1..Len(p_cells) |-> [ndvi |-> NoneValue, image_count |-> 0]])
                     /\ p_pc' = "gee_returned"
                     /\ UNCHANGED <<p_exc, w_ndvi>>
                ELSE \E thumbs \in ThumbnailLists(img.count),
                        nd \in [1..Len(p_cells) -> NdviResponses] :
                     /\ w_ndvi' = nd
                     /\ gee_result' = SetFeatures(p_cells,
                            [i \in 1..Len(p_cells) |-> GeeFeatures(img.count, thumbs, nd[i])])
                     /\ p_pc' = "gee_returned"
                     /\ UNCHANGED p_exc
    /\ UNCHANGED <<p_cells, p_given, p_polygon, p_park_boundary, p_window, p_run, p_first, p_rng,
                   p_now_month, w_moon,
                   w_dem, w_terrain>>
    /\ UNCHANGED NotPipe

PipeNext ==
    \/ ExtractSatelliteFeatures
    \/ CalculateProximityFeatures
    \/ AddTemporalFeatures
    \/ ExtractTopographicalFeatures
    \/ AddSpeciesFeatures
    \/ CalculateDerivedFeatures
    \/ MonthPasses
    \/ GeeExtractFeatures

SpecPipe == PipeInit /\ [][PipeNext]_vars

-----------------------------------------------------------------------------
(* Claims about the feature pipeline.                                      *)

\* the names checked by test_format_for_model_input
\* (test_feature_extractor.py:385-395)
RequiredFeatures ==
    {"ndvi", "vegetation_type_encoded",
     "dist_to_boundary", "dist_to_water", "dist_to_road", "dist_to_settlement",
     "incidents_5km_radius", "days_since_last_incident", "seasonal_incident_rate",
     "moon_illumination", "season_encoded", "day_of_week",
     "elevation", "slope", "terrain_ruggedness",
     "elephant_migration_route", "breeding_season", "watering_pattern_encoded",
     "boundary_risk", "water_attraction", "access_ease", "isolation_score",
     "dense_vegetation", "dry_season", "is_weekend", "incident_density"}

CategoricalTwins ==
    {<<"vegetation_type", "vegetation_type_encoded">>,
     <<"season", "season_encoded">>,
     <<"watering_pattern", "watering_pattern_encoded">>}

Keys(i) == DOMAIN p_cells[i].features

ZeroImages == w_images # <<>> /\ w_images.kind = "ok" /\ w_images.count = 0

\* C6: once extract_features_for_cells has returned, every cell's features
\* hold all 26 required names, and each categorical feature is present
\* together with its encoded twin, whatever branch the satellite layer took.
AllRequiredFeatures ==
    p_pc = "returned" =>
        \A i \in 1..Len(p_cells) :
            /\ RequiredFeatures \subseteq Keys(i)
            /\ \A t \in CategoricalTwins : t[1] \in Keys(i) /\ t[2] \in Keys(i)

\* C7 as stated: with zero images every cell is returned with ndvi 0.5 and
\* image_count 0 in its features.
ZeroImagesCounted ==
    (p_pc = "returned" /\ ZeroImages) =>
        /\ Len(p_cells) = Len(p_given)
        /\ \A i \in 1..Len(p_cells) :
              /\ p_cells[i].id = p_given[i].id
              /\ "ndvi" \in Keys(i) /\ p_cells[i].features["ndvi"] = 500
              /\ "image_count" \in Keys(i) /\ p_cells[i].features["image_count"] = 0

\* C7 amended: with zero images both extractors return every cell;
\* FeatureExtractor's satellite layer gives ndvi 0.5 and grassland and no
\* image_count key at all, GEESatellite gives image_count 0 and ndvi None.
ZeroImagesDefaults ==
    /\ (p_pc \in {"proximity", "temporal", "topo", "species", "derived", "returned"}
          /\ ZeroImages) =>
            /\ Len(p_cells) = Len(p_given)
            /\ \A i \in 1..Len(p_cells) :
                  /\ p_cells[i].id = p_given[i].id
                  /\ p_cells[i].center = p_given[i].center
                  /\ "ndvi" \in Keys(i) /\ p_cells[i].features["ndvi"] = 500
                  /\ "vegetation_type" \in Keys(i)
                  /\ p_cells[i].features["vegetation_type"] = "grassland"
                  /\ "image_count" \notin Keys(i)
    /\ (p_pc = "gee_returned" /\ ZeroImages) =>
            /\ Len(gee_result) = Len(p_given)
            /\ \A i \in 1..Len(gee_result) :
                  /\ gee_result[i].id = p_given[i].id
                  /\ gee_result[i].center = p_given[i].center
                  /\ gee_result[i].features = [ndvi |-> NoneValue, image_count |-> 0]

ZeroImagesWitness ==
    /\ ZeroImages
    /\ \/ p_pc = "returned" /\ Len(p_cells) = 2
       \/ p_pc = "gee_returned" /\ Len(gee_result) = 2

KeysKept == \A i \in 1..Len(p_cells) : Keys(i) \subseteq DOMAIN p_cells'[i].features

\* C8 as stated: no step of the pipeline, a repeated run included, removes a
\* key from a cell's features.
KeysOnlyGrow == [][Len(p_cells') = Len(p_cells) /\ KeysKept]_vars

SatelliteKeys == {"ndvi", "vegetation_type", "vegetation_type_encoded"}

\* C8 amended: the satellite layer assigns each cell a fresh features mapping
\* that holds satellite keys only; every later layer (proximity, temporal,
\* topographic, species, derived) keeps every key that was present before it.
KeysGrowAfterSatellite ==
    [][/\ Len(p_cells') = Len(p_cells)
       /\ p_pc \in {"proximity", "temporal", "topo", "species", "derived"} => KeysKept
       /\ (p_pc \in {"call", "returned"} /\ p_pc' = "proximity") =>
              \A i \in 1..Len(p_cells) :
                  DOMAIN p_cells'[i].features \subseteq SatelliteKeys]_vars

\* the second run has replaced the features of the first and merged the
\* proximity layer into the fresh mapping
KeysGrowWitness ==
    /\ p_run = 1 /\ p_pc = "temporal" /\ Len(p_cells) = 2
    /\ \A i \in 1..Len(p_cells) :
          /\ "ndvi" \in Keys(i) /\ "dist_to_road" \in Keys(i)
          /\ "boundary_risk" \notin Keys(i)

\* C9: a second run on the same cells, polygon and dates, answered by the
\* same external responses, returns the feature vectors of the first run.
RunsAgree ==
    (p_pc = "returned" /\ p_run = 2) => FeaturesOf(p_cells) = p_first

Unavailable(kind) == kind \in {"error", "null"}

\* every capability asked so far has failed or returned no data
AllAskedFailed ==
    /\ w_images # <<>> /\ (w_images.kind = "error" \/ w_images.count = 0)
    /\ \A i \in 1..Len(w_ndvi) : Unavailable(w_ndvi[i].kind)
    /\ w_moon # "ok"
    /\ w_dem # "ok"
    /\ \A i \in 1..Len(w_terrain) : w_terrain[i].kind = "error"

\* C10: when every external capability fails or returns no data, the call
\* raises nothing and returns with the required features of every cell.
SurvivesOutage ==
    AllAskedFailed =>
        /\ p_pc # "raised"
        /\ p_pc = "returned" =>
              \A i \in 1..Len(p_cells) : RequiredFeatures \subseteq Keys(i)

SameCellsAsGiven ==
    /\ Len(p_cells) = Len(p_given)
    /\ \A i \in 1..Len(p_cells) :
          p_cells[i].id = p_given[i].id /\ p_cells[i].center = p_given[i].center

Has(i, k, v) == k \in Keys(i) /\ p_cells[i].features[k] = v

\* C11: a sampling error at any subset of cells never aborts the batch.  A
\* cell whose vegetation-index sample raised holds ndvi 0.5, grassland and
\* encoding 2, a cell whose terrain sample raised holds elevation 1000,
\* slope 10 and ruggedness 5, every other cell holds what its own sample gave,
\* an exception can only come from a call made once for the whole batch, and
\* the list keeps its length, order and ids.
SamplingErrorsContained ==
    /\ SameCellsAsGiven
    /\ p_pc = "raised" =>
          p_exc \in {"collection.size().getInfo()", "ephem.Moon(middle_date)",
                     "ee.Image('USGS/SRTMGL1_003')"}
    /\ (p_pc \in {"proximity", "temporal", "topo", "species", "derived", "returned"}
          /\ w_images.count > 0) =>
            \A i \in 1..Len(p_cells) :
                IF w_ndvi[i].kind = "error"
                THEN Has(i, "ndvi", 500) /\ Has(i, "vegetation_type", "grassland")
                     /\ Has(i, "vegetation_type_encoded", 2)
                ELSE \A k \in SatelliteKeys :
                        Has(i, k, SatelliteSampled(w_ndvi[i])[k])
    /\ p_pc \in {"species", "derived", "returned"} =>
            \A i \in 1..Len(p_cells) :
                IF w_terrain[i].kind = "error"
                THEN Has(i, "elevation", 1000) /\ Has(i, "slope", 100)
                     /\ Has(i, "terrain_ruggedness", 50)
                ELSE \A k \in {"elevation", "slope", "terrain_ruggedness"} :
                        Has(i, k, TopoFeatures(w_terrain[i])[k])

\* a batch of two returned although one cell failed in each sampling layer
SamplingErrorsWitness ==
    /\ p_pc = "returned" /\ Len(p_cells) = 2 /\ w_images.count > 0
    /\ w_ndvi[1].kind = "error" /\ w_ndvi[2].kind = "value"
    /\ w_terrain[1].kind = "ok" /\ w_terrain[2].kind = "error"

-----------------------------------------------------------------------------
(* DataService (data_service.py).  Latitude and longitude are in units of  *)
(* 1/50000 degree, agri_risk_score in tenths, a standard normal deviate in *)
(* thousandths, every other quantity in units of 10^-5; the returned       *)
(* values are in hundredths.                                               *)

GeoUnit == 50000
One == 10 ^ 5

\* f"{x:.4f}": the sign and the digits of x rounded to four decimals
Format4(x) == [neg |-> x < 0, digits |-> (Abs(x) + 2) \div 5]

SeedSpace == 2 ^ 16

\* A seed whose key also holds the day of the month.
SeedOfTheDay(lat, lon, date_val) ==
    (Format4(lat).digits * 31 + Format4(lon).digits * 17
     + date_val.y * 13 + date_val.m * 7 + date_val.d) % SeedSpace

\* lines 14-16: the key string, hashed into the seed space
_get_deterministic_seed(lat, lon, date_val) ==
    LET la == Format4(lat)
        lo == Format4(lon)
    IN  (la.digits * 31 + (IF la.neg THEN 3 ELSE 0) + lo.digits * 17
         + (IF lo.neg THEN 5 ELSE 0) + date_val.y * 13 + date_val.m * 7) % SeedSpace

\* the n-th deviate drawn by rng.normal from np.random.RandomState(seed)
StandardNormal(seed, n) == ((seed * 7919 + n * 104729) % 12001) - 6000

\* round(x, 2): to the nearest hundredth, a tie to the even one
Round2(x) ==
    LET q == x \div 1000
        r == x % 1000
    IN  IF r < 500 THEN q
        ELSE IF r > 500 THEN q + 1
        ELSE IF q % 2 = 0 THEN q ELSE q + 1

\* lines 24-63
get_context_data(lat, lon, agri_risk_score, today) ==
    LET seed == _get_deterministic_seed(lat, lon, today)
        base_volatility == IF Abs(lat) < 20 * GeoUnit THEN (One * 5) \div 10
                           ELSE (One * 3) \div 10
        weather_volatility == Clip(base_volatility + 10 * StandardNormal(seed, 1),
                                   One \div 10, (One * 9) \div 10)
        market_stability == Clip(One \div 2 + 15 * StandardNormal(seed, 2),
                                 (One * 2) \div 10, (One * 9) \div 10)
        base_soil == One - agri_risk_score * 100
        soil_quality == Clip(base_soil + 10 * StandardNormal(seed, 3),
                             One \div 10, (One * 95) \div 100)
        claims_history == Clip(agri_risk_score * 80 + 5 * StandardNormal(seed, 4), 0, One)
        yield_stability == Clip(One - (weather_volatility * 6) \div 10
                                + 5 * StandardNormal(seed, 5),
                                One \div 10, (One * 95) \div 100)
    IN  [weather_volatility |-> Round2(weather_volatility),
         market_stability |-> Round2(market_stability),
         soil_quality |-> Round2(soil_quality),
         claims_history_index |-> Round2(claims_history),
         yield_stability |-> Round2(yield_stability)]

\* latitudes -1.29212, -1.29208 (both format to -1.2921), 19.99996 and
\* 20.00004 (both format to 20.0000), 45
ContextLats == {-64606, -64604, 999998, 1000002, 45 * GeoUnit}

\* longitudes 36.8219, 36.82194 (both format to 36.8219), 37
ContextLons == {1841095, 1841097, 37 * GeoUnit}

\* agri_risk_score -20, 0, 35, 100, 150
ContextScores == {-200, 0, 350, 1000, 1500}

Todays == {Date(2026, 3, 10), Date(2026, 3, 25), Date(2026, 4, 2)}

ContextCall(lat, lon, agri_risk_score, today) ==
    [lat |-> lat, lon |-> lon, agri_risk_score |-> agri_risk_score, today |-> today,
     out |-> get_context_data(lat, lon, agri_risk_score, today)]

ContextInit ==
    /\ IdleGeo /\ IdleGrid /\ IdlePipe /\ IdleRisk /\ IdleLoad /\ IdleThumbs /\ IdleWs /\ IdleVeg /\ IdleDates
    /\ c_pc = "none"
    /\ c_first = <<>>
    /\ c_second = <<>>

FirstContextCall ==
    /\ c_pc = "none"
    /\ \E lat \in ContextLats, lon \in ContextLons, score \in ContextScores,
          today \in Todays :
          c_first' = ContextCall(lat, lon, score, today)
    /\ c_pc' = "one"
    /\ UNCHANGED c_second
    /\ UNCHANGED NotCtx

\* a later call on the same DataService instance, the same day or a later one
SecondContextCall ==
    /\ c_pc = "one"
    /\ \E lat \in ContextLats, lon \in ContextLons, score \in ContextScores,
          today \in Todays :
          /\ DaysFromCivil(today) >= DaysFromCivil(c_first.today)
          /\ c_second' = ContextCall(lat, lon, score, today)
    /\ c_pc' = "two"
    /\ UNCHANGED c_first
    /\ UNCHANGED NotCtx

ContextNext == FirstContextCall \/ SecondContextCall

SpecContext == ContextInit /\ [][ContextNext]_vars

SamePeriod == c_first.today.y = c_second.today.y /\ c_first.today.m = c_second.today.m

\* C12: two calls with the same latitude, longitude, calendar year and month
\* and agri_risk_score return the same five values, whatever else differs
\* (the day of the month, the calls made before).
ContextDeterministic ==
    (c_pc = "two" /\ c_first.lat = c_second.lat /\ c_first.lon = c_second.lon
       /\ c_first.agri_risk_score = c_second.agri_risk_score /\ SamePeriod)
    => c_first.out = c_second.out

ContextDeterministicWitness ==
    /\ c_pc = "two" /\ c_first.lat = c_second.lat /\ c_first.lon = c_second.lon
    /\ c_first.agri_risk_score = c_second.agri_risk_score /\ SamePeriod
    /\ c_first.today # c_second.today
    /\ c_first.out = c_second.out

\* C13: two calls in the same month with the same longitude and score whose
\* latitudes differ but are equal after rounding to four decimals return the
\* same five values.
RoundedLatitudeCollides ==
    (c_pc = "two" /\ c_first.lat # c_second.lat
       /\ Format4(c_first.lat) = Format4(c_second.lat)
       /\ c_first.lon = c_second.lon
       /\ c_first.agri_risk_score = c_second.agri_risk_score /\ SamePeriod)
    => c_first.out = c_second.out

InRange(x, lo, hi) == lo <= x /\ x <= hi

ClampRanges(out) ==
    /\ InRange(out.weather_volatility, 10, 90)
    /\ InRange(out.market_stability, 20, 90)
    /\ InRange(out.soil_quality, 10, 95)
    /\ InRange(out.claims_history_index, 0, 100)
    /\ InRange(out.yield_stability, 10, 95)
    /\ \A k \in DOMAIN out : InRange(out[k], 0, 100)

\* C14: every value returned by get_context_data lies in its clamp range
\* (weather_volatility 0.1..0.9, market_stability 0.2..0.9, soil_quality
\* 0.1..0.95, claims_history_index 0..1, yield_stability 0.1..0.95), for
\* scores outside 0..100 too, so all five lie in 0..1.
ContextClamped ==
    /\ c_pc \in {"one", "two"} => ClampRanges(c_first.out)
    /\ c_pc = "two" => ClampRanges(c_second.out)

\* a score of 150 (soil base -0.5, claims base 1.2) clamped at both ends
ContextClampedWitness ==
    /\ c_pc = "one" /\ c_first.agri_risk_score = 1500
    /\ c_first.out.soil_quality = 10
    /\ c_first.out.claims_history_index = 100

-----------------------------------------------------------------------------
(* RiskPredictionModel (risk_model.py).  A feature value is a record:      *)
(* kind "none" (None), "nan" (float nan), "text" (a non-numeric string) or *)
(* "num" with v in the feature's own unit (ndvi and soil_moisture in       *)
(* hundredths).  A dict is a function on its keys.  Raw model outputs are  *)
(* in tenths, confidence in units of 1 / ConfidenceUnit.                   *)

NoneV == [kind |-> "none", v |-> 0]
NaN == [kind |-> "nan", v |-> 0]
Text == [kind |-> "text", v |-> 0]
Num(v) == [kind |-> "num", v |-> v]

\* dict.get(k) and dict.get(k, default)
Get(d, k) == IF k \in DOMAIN d THEN d[k] ELSE NoneV
GetOr(d, k, default) == IF k \in DOMAIN d THEN d[k] ELSE default

\* self.feature_names of the loaded model
feature_names == <<"ndvi", "humidity", "temperature", "soil_moisture", "pest_pressure_history">>

FeatureSet == {feature_names[i] : i \in 1..Len(feature_names)}

\* line 108
IsMissing(value) == value.kind \in {"none", "text"}

\* lines 111-124; the names that contain 'encoded' or 'dist_' are listed
DefaultFor(feature) ==
    IF feature \in {"crop_type_encoded", "crop_stage_encoded", "pest_pressure_encoded"} THEN 0
    ELSE IF feature \in {"dist_to_water", "dist_to_road"} THEN 5000
    ELSE IF feature = "ndvi" THEN 60
    ELSE IF feature = "humidity" THEN 60
    ELSE IF feature = "temperature" THEN 25
    ELSE IF feature = "soil_moisture" THEN 50
    ELSE 0

\* lines 103-127: the row of one cell
CleanFeatures(cell) ==
    LET features == GetOr(cell, "features", EmptyDict)
    IN  [f \in FeatureSet |->
            IF IsMissing(Get(features, f)) THEN Num(DefaultFor(f)) ELSE Get(features, f)]

\* lines 105-109, 128
MissingCount(cell) ==
    Cardinality({f \in FeatureSet : IsMissing(Get(GetOr(cell, "features", EmptyDict), f))})


\* line 140: np.clip(risk_scores, 0, 100)
ClipScore(raw) == Clip(raw, 0, 1000)

\* line 144: int(round(x)), a tie to the even integer
RoundScore(x) ==
    LET q == x \div 10
        r == x % 10
    IN  IF r < 5 THEN q ELSE IF r > 5 THEN q + 1 ELSE IF q % 2 = 0 THEN q ELSE q + 1

\* Strict comparisons: a score of exactly 80 is no longer critical.
CategorizeAbove(score) ==
    IF score > 800 THEN "critical"
    ELSE IF score > 600 THEN "high"
    ELSE IF score > 400 THEN "medium"
    ELSE "low"

\* lines 176-185, score in tenths
_categorize_risk(score) ==
    IF score >= 800 THEN "critical"
    ELSE IF score >= 600 THEN "high"
    ELSE IF score >= 400 THEN "medium"
    ELSE "low"

\* schema.py:271-280, score in tenths
categorize_risk_score(score) ==
    IF score < 400 THEN "safe"
    ELSE IF score < 600 THEN "low"
    ELSE IF score < 800 THEN "medium"
    ELSE "high"

\* x / y rounded to the nearest integer (no tie occurs for the divisors used)
RoundDiv(x, y) == (2 * x + y) \div (2 * y)

NullCount(row) == Cardinality({f \in DOMAIN row : row[f].kind = "nan"})

\* A confidence that ignores how extreme the score is.
ConfidenceFlat(risk_score, row) ==
    RoundDiv((Cardinality(DOMAIN row) - NullCount(row)) * 1000, Cardinality(DOMAIN row))

\* lines 187-203, in thousandths: round(completeness * score_confidence, 3)
_calculate_confidence(risk_score, row) ==
    LET n == Cardinality(DOMAIN row)
        penalty == 1000 - 6 * Abs(risk_score - 50)
    IN  RoundDiv((n - NullCount(row)) * penalty, n)

ConfidenceUnit == 2000 * Len(feature_names)

\* A missing-feature factor of 1.
MissingFactorOne(missing) == 2 * Len(feature_names)

\* line 151: max(0.5, 1 - missing / len(feature_names)), in 1 / (2 n)
MissingFactor(missing) == Max(Len(feature_names), 2 * (Len(feature_names) - missing))

\* lines 148-151
Confidence(risk_score, row, missing) ==
    IF missing > 0
    THEN _calculate_confidence(risk_score, row) * MissingFactor(missing)
    ELSE _calculate_confidence(risk_score, row) * 2 * Len(feature_names)

Gt(x, c) == x.kind = "num" /\ x.v > c
Lt(x, c) == x.kind = "num" /\ x.v < c

\* lines 215-259: the factors of the threshold rules that fire, in order
ThresholdFactors(features) ==
    LET humidity == GetOr(features, "humidity", Num(50))
        temp == GetOr(features, "temperature", Num(25))
        soil_moisture == GetOr(features, "soil_moisture", Num(50))
        pest_pressure == GetOr(features, "pest_pressure_history", Num(0))
        ndvi == GetOr(features, "ndvi", Num(60))
    IN  (IF Gt(humidity, 80) /\ Gt(temp, 20) THEN <<"High Humidity & Warmth">>
         ELSE IF Lt(humidity, 30) THEN <<"Low Humidity">> ELSE <<>>)
        \o (IF Gt(soil_moisture, 80) THEN <<"Waterlogging">> ELSE <<>>)
        \o (IF Gt(pest_pressure, 2) THEN <<"High Pest Pressure">> ELSE <<>>)
        \o (IF Lt(ndvi, 40) THEN <<"Vegetation Stress">> ELSE <<>>)

\* The fallback of lines 262-267 left out.
TriggeredOnly(features, risk_score) == ThresholdFactors(features)

\* lines 215-267: the factors appended, in order
TriggeredFactors(features, risk_score) ==
    LET found == ThresholdFactors(features)
    IN  IF Len(found) < 2 /\ risk_score > 60
        THEN Append(found, "Favorable Pest Climate") ELSE found

\* the values of random.randint(a, b) followed here: both ends and one inside
Randint(factor) ==
    IF factor = "High Humidity & Warmth" THEN {25, 29, 35}
    ELSE IF factor \in {"Waterlogging", "High Pest Pressure"} THEN {20, 25, 30}
    ELSE IF factor = "Vegetation Stress" THEN {15, 21, 25}
    ELSE {15, 20, 25}

RECURSIVE SeqSum(_)
SeqSum(q) == IF q = <<>> THEN 0 ELSE Head(q) + SeqSum(Tail(q))

\* line 273: int((contribution / total) * 100) in double arithmetic: the
\* floor of the exact quotient, except where the product falls just short
\* of the integer (0.58 * 100 and 0.29 * 100)
Normalized(contribution, total) ==
    IF <<contribution, total>> \in {<<29, 50>>, <<29, 100>>}
    THEN (100 * contribution) \div total - 1
    ELSE (100 * contribution) \div total

\* lines 205-275; drawn[i] is the randint of the i-th factor appended
_generate_risk_factors(features, risk_score, drawn) ==
    LET factors == TriggeredFactors(features, risk_score)
        total == SeqSum(drawn)
    IN  [i \in 1..Len(factors) |->
            [factor |-> factors[i],
             contribution |-> IF total > 0 THEN Normalized(drawn[i], total) ELSE drawn[i]]]

RECURSIVE Product(_)
Product(sets) ==
    IF sets = <<>> THEN {<<>>}
    ELSE {<<h>> \o t : h \in Head(sets), t \in Product(Tail(sets))}

\* lines 143-172: the prediction of one cell from the model's raw output
Prediction(cell, raw, drawn) ==
    LET row == CleanFeatures(cell)
        risk_score == RoundScore(ClipScore(raw))
    IN  [cell |-> cell,
         risk_score |-> risk_score,
         risk_level |-> _categorize_risk(10 * risk_score),
         confidence |-> Confidence(risk_score, row, MissingCount(cell)),
         risk_factors |-> _generate_risk_factors(row, risk_score, drawn)]

\* the draws a batch may make, cell by cell
BatchDraws(cells, raw) ==
    Product([i \in 1..Len(cells) |->
        LET factors == TriggeredFactors(CleanFeatures(cells[i]), RoundScore(ClipScore(raw[i])))
        IN  Product([j \in 1..Len(factors) |-> Randint(factors[j])])])

\* insurance_model.py:27-28
required_features ==
    <<"agri_risk_score", "claims_history_index", "yield_stability",
      "weather_volatility", "market_stability", "soil_quality">>

\* lines 30-43 for one feature: "" when the loop goes on, else the exception
FeatureProblem(features, feature) ==
    IF feature \notin DOMAIN features THEN "ValueError: Missing required feature"
    ELSE IF features[feature].kind = "none" THEN "TypeError"
    ELSE IF feature = "agri_risk_score"
            /\ ~(Gt(features[feature], -1) /\ Lt(features[feature], 101))
         THEN "ValueError: agri_risk_score must be between 0 and 100"
    ELSE ""

\* A validation that fills in an absent feature and goes on.
InsuranceSubstitute(loaded, features, raw) ==
    [kind |-> "value", error |-> "", feature |-> "", invoked |-> TRUE, value |-> raw]

\* insurance_model.py:18-48; raw is what self.model.predict would return.
\* The exception carries the name of the feature at which the loop stopped.
InsurancePredict(loaded, features, raw) ==
    IF ~loaded
    THEN [kind |-> "error", error |-> "Exception: Model not loaded", feature |-> "",
          invoked |-> FALSE, value |-> 0]
    ELSE LET bad == {i \in 1..Len(required_features) :
                        FeatureProblem(features, required_features[i]) # ""}
         IN  IF bad # {}
             THEN LET first == CHOOSE i \in bad : \A j \in bad : i <= j
                  IN  [kind |-> "error",
                       error |-> FeatureProblem(features, required_features[first]),
                       feature |-> required_features[first],
                       invoked |-> FALSE, value |-> 0]
             ELSE [kind |-> "value", error |-> "", feature |-> "", invoked |-> TRUE,
                   value |-> raw]

-----------------------------------------------------------------------------
(* Inputs of the two prediction paths.                                     *)

Absent == [kind |-> "absent", v |-> 0]

\* the dict that holds the keys whose choice is not Absent
DictOf(choice) == [k \in {k \in DOMAIN choice : choice[k] # Absent} |-> choice[k]]

FeatureChoices(feature) ==
    IF feature = "ndvi" THEN {Absent, NoneV, NaN, Num(30), Num(70)}
    ELSE IF feature = "humidity" THEN {NoneV, NaN, Num(20), Num(90)}
    ELSE IF feature = "temperature" THEN {Absent, Num(15), Num(30)}
    ELSE IF feature = "soil_moisture" THEN {NaN, Num(50), Num(90)}
    ELSE {Absent, Text, Num(0), Num(3)}

FeatureDicts ==
    {DictOf(choice) :
        choice \in {c \in [FeatureSet -> {Absent, NoneV, NaN, Text, Num(0), Num(3), Num(15),
                                           Num(20), Num(30), Num(50), Num(70), Num(90)}] :
                        \A f \in FeatureSet : c[f] \in FeatureChoices(f)}}

CellWith(id, features) == [k \in {"id", "features"} |-> IF k = "id" THEN id ELSE features]

\* test_risk_model.py:273-277 and a cell that has no 'features' key
NoDataCell == CellWith("no-data", [k \in {"ndvi"} |-> NoneV])
BareCell == [k \in {"id"} |-> "bare"]
AllNanCell == CellWith("all-nan", [f \in FeatureSet |-> NaN])
CompleteCell ==
    CellWith("complete", [f \in FeatureSet |->
        IF f = "ndvi" THEN Num(70) ELSE IF f = "humidity" THEN Num(90)
        ELSE IF f = "temperature" THEN Num(30) ELSE IF f = "soil_moisture" THEN Num(50)
        ELSE Num(0)])

BatchInputs ==
    {<<>>, <<BareCell>>, <<AllNanCell>>}
    \cup {<<CellWith("cell", d)>> : d \in FeatureDicts}
    \cup {<<NoDataCell, CompleteCell>>, <<CompleteCell, NoDataCell>>,
          <<CompleteCell, CompleteCell>>, <<AllNanCell, AllNanCell>>}

\* values of self.model.predict, in tenths
RawOutputs == {-250, 0, 395, 500, 605, 799, 955, 1300}

InsuranceChoices(feature) ==
    IF feature = "agri_risk_score" THEN {Absent, NoneV, NaN, Num(-5), Num(50), Num(150)}
    ELSE IF feature = "claims_history_index" THEN {Absent, Num(50), Num(130)}
    ELSE IF feature = "soil_quality" THEN {Absent, NoneV, Num(50)}
    ELSE {Absent, Num(50)}

InsuranceDicts ==
    LET names == {required_features[i] : i \in 1..Len(required_features)}
    IN  {DictOf(choice) :
            choice \in {c \in [names -> {Absent, NoneV, NaN, Num(-5), Num(50), Num(130),
                                          Num(150)}] :
                            \A f \in names : c[f] \in InsuranceChoices(f)}}

InsuranceRawOutputs == {-120, 0, 473, 1300}

-----------------------------------------------------------------------------
(* The prediction calls.                                                   *)

RiskInit ==
    /\ IdleGeo /\ IdleGrid /\ IdlePipe /\ IdleCtx /\ IdleLoad /\ IdleThumbs /\ IdleWs /\ IdleVeg /\ IdleDates
    /\ r_pc = "ready"
    /\ r_score = 0
    /\ r_levels = <<>>
    /\ r_cells = <<>>
    /\ r_raw = <<>>
    /\ r_predictions = <<>>
    /\ i_loaded \in BOOLEAN
    /\ i_features = <<>>
    /\ i_result = <<>>

\* risk_model.py:75-174 on a loaded model (the constructor raises otherwise)
PredictBatch ==
    /\ r_pc = "ready"
    /\ \E cells \in BatchInputs :
          /\ r_cells' = cells
          /\ IF cells = <<>>
                THEN r_raw' = <<>> /\ r_predictions' = <<>>
                ELSE \E raw \in [1..Len(cells) -> RawOutputs] :
                     \E drawn \in BatchDraws(cells, raw) :
                        /\ r_raw' = raw
                        /\ r_predictions' =
                              [i \in 1..Len(cells) |-> Prediction(cells[i], raw[i], drawn[i])]
    /\ r_pc' = "batch_returned"
    /\ UNCHANGED <<r_score, r_levels, i_loaded, i_features, i_result>>
    /\ UNCHANGED NotRisk

\* insurance_model.py:18-48
PredictInsurance ==
    /\ r_pc = "ready"
    /\ \E features \in InsuranceDicts, raw \in InsuranceRawOutputs :
          LET result == InsurancePredict(i_loaded, features, raw)
          IN  /\ i_features' = features
              /\ i_result' = result
              /\ r_raw' = IF result.invoked THEN <<raw>> ELSE <<>>
              /\ r_pc' = IF result.kind = "value" THEN "insurance_returned"
                          ELSE "insurance_raised"
    /\ UNCHANGED <<r_score, r_levels, r_cells, r_predictions, i_loaded>>
    /\ UNCHANGED NotRisk

\* scores from -5.0 to 105.0 in steps of a half
CategorizerScores == {5 * i : i \in -10..210}

\* risk_model.py:176-185 and schema.py:271-280 applied to one score
Categorize ==
    /\ r_pc = "ready"
    /\ \E score \in CategorizerScores :
          /\ r_score' = score
          /\ r_levels' = <<_categorize_risk(score), categorize_risk_score(score)>>
    /\ r_pc' = "categorized"
    /\ UNCHANGED <<r_cells, r_raw, r_predictions, i_loaded, i_features, i_result>>
    /\ UNCHANGED NotRisk

RiskNext == PredictBatch \/ PredictInsurance \/ Categorize

SpecRisk == RiskInit /\ [][RiskNext]_vars

-----------------------------------------------------------------------------
(* Claims about the prediction calls.                                      *)

InsuranceCalled == r_pc \in {"insurance_returned", "insurance_raised"}

RequiredNames == {required_features[i] : i \in 1..Len(required_features)}

FeaturesOfCell(cell) == IF "features" \in DOMAIN cell THEN cell["features"] ELSE EmptyDict

SomeFeatureAbsent(cell) == \E f \in FeatureSet : f \notin DOMAIN FeaturesOfCell(cell)

\* C15 as stated: with a required feature absent, either prediction path
\* fails with a missing-feature error that names an absent key, and the model
\* is not invoked.
MissingFeatureRejected ==
    /\ (InsuranceCalled /\ ~(RequiredNames \subseteq DOMAIN i_features)) =>
          /\ i_result.kind = "error"
          /\ i_result.error = "ValueError: Missing required feature"
          /\ i_result.feature \in RequiredNames \ DOMAIN i_features
          /\ r_raw = <<>>
    /\ r_pc = "batch_returned" =>
          \A i \in 1..Len(r_cells) : ~SomeFeatureAbsent(r_cells[i])

\* a required feature that is present, not None and, for agri_risk_score,
\* within 0..100
Acceptable(features, f) ==
    /\ f \in DOMAIN features
    /\ features[f].kind # "none"
    /\ f = "agri_risk_score" =>
          features[f].kind = "num" /\ InRange(features[f].v, 0, 100)

\* C15 amended: InsuranceRiskModel.predict on a loaded model checks the
\* required features in their order and raises at the first that is absent,
\* None or (agri_risk_score) out of 0..100, without invoking the model; the
\* error is the missing-feature error naming the key exactly when that first
\* offender is absent.  On a model that is not loaded it raises "Model not
\* loaded".  predict_batch never fails on an absent feature: it invokes the
\* model for every cell and returns a prediction for every cell.
MissingFeatureHandling ==
    /\ (InsuranceCalled /\ ~i_loaded) =>
          i_result.kind = "error" /\ i_result.error = "Exception: Model not loaded"
          /\ r_raw = <<>>
    /\ (InsuranceCalled /\ i_loaded) =>
          \A k \in 1..Len(required_features) :
              (/\ ~Acceptable(i_features, required_features[k])
               /\ \A j \in 1..(k - 1) : Acceptable(i_features, required_features[j]))
              => /\ i_result.kind = "error"
                 /\ i_result.feature = required_features[k]
                 /\ r_raw = <<>>
                 /\ (i_result.error = "ValueError: Missing required feature")
                       <=> (required_features[k] \notin DOMAIN i_features)
    /\ (InsuranceCalled /\ i_loaded
          /\ \A f \in RequiredNames : Acceptable(i_features, f)) =>
          i_result.kind = "value" /\ Len(r_raw) = 1
    /\ r_pc = "batch_returned" =>
          Len(r_predictions) = Len(r_cells) /\ Len(r_raw) = Len(r_cells)

\* the third required feature is the first of two absent ones
MissingFeatureWitness ==
    /\ r_pc = "insurance_raised" /\ i_loaded
    /\ i_result.error = "ValueError: Missing required feature"
    /\ i_result.feature = "yield_stability"
    /\ "soil_quality" \notin DOMAIN i_features

MissingOf(cell) ==
    Cardinality({f \in FeatureSet :
        \/ f \notin DOMAIN FeaturesOfCell(cell)
        \/ FeaturesOfCell(cell)[f].kind \in {"none", "text"}})

NanOf(cell) ==
    Cardinality({f \in FeatureSet :
        f \in DOMAIN FeaturesOfCell(cell) /\ FeaturesOfCell(cell)[f].kind = "nan"})

Total == Len(feature_names)

\* round(completeness * (1 - |score - 50| / 50 * 0.3), 3), in thousandths
BaseConfidence(cell, score) ==
    RoundDiv((Total - NanOf(cell)) * (1000 - 6 * Abs(score - 50)), Total)

\* C16: predict_batch returns one prediction per input cell, in order, each
\* with risk_score in 0..100; a cell with m > 0 missing or None features has
\* its confidence multiplied by max(0.5, 1 - m / total), and a cell with all
\* features missing or None has confidence below 0.6.
BatchHandlesMissing ==
    r_pc = "batch_returned" =>
        /\ Len(r_predictions) = Len(r_cells)
        /\ \A i \in 1..Len(r_cells) :
              LET p == r_predictions[i]
                  m == MissingOf(r_cells[i])
              IN  /\ p.cell = r_cells[i]
                  /\ InRange(p.risk_score, 0, 100)
                  /\ m > 0 => p.confidence =
                        BaseConfidence(r_cells[i], p.risk_score) * Max(Total, 2 * (Total - m))
                  /\ m = 0 => p.confidence = BaseConfidence(r_cells[i], p.risk_score) * 2 * Total
                  /\ m = Total => 10 * p.confidence < 6 * ConfidenceUnit

\* the no-data cell of the tests in a batch of two, and a cell missing one
\* feature whose confidence was multiplied by 0.8
BatchHandlesMissingWitness ==
    /\ r_pc = "batch_returned" /\ Len(r_predictions) = 2
    /\ r_cells[1] = NoDataCell /\ MissingOf(r_cells[2]) = 0
    /\ r_predictions[1].risk_score = 50
    /\ r_predictions[1].confidence * 2 = ConfidenceUnit

\* C17: the risk score returned by either prediction path lies in 0..100
\* whatever the model's raw output.
ScoreInRange ==
    /\ r_pc = "batch_returned" =>
          \A i \in 1..Len(r_predictions) : InRange(r_predictions[i].risk_score, 0, 100)
    /\ r_pc = "insurance_returned" => InRange(i_result.value, 0, 1000)

Rank(level) ==
    IF level = "critical" THEN 3
    ELSE IF level = "high" THEN 2
    ELSE IF level = "medium" THEN 1
    ELSE 0

\* the tier of a schema label: safe, low, medium, high
SchemaRank(level) ==
    IF level = "high" THEN 3 ELSE IF level = "medium" THEN 2
    ELSE IF level = "low" THEN 1 ELSE 0

\* the level the thresholds 80 / 60 / 40 give a score in tenths
LevelOf(score) ==
    IF score >= 800 THEN "critical"
    ELSE IF 600 <= score /\ score < 800 THEN "high"
    ELSE IF 400 <= score /\ score < 600 THEN "medium"
    ELSE "low"

\* C18: _categorize_risk returns critical from 80, high in [60, 80), medium
\* in [40, 60) and low below 40; categorize_risk_score cuts at the same
\* 40 / 60 / 80 into safe, low, medium, high, so both give the same tier; and
\* the risk_level of every prediction is the category of its risk_score.
CategoriesAgree ==
    /\ r_pc = "categorized" =>
          /\ r_levels[1] = LevelOf(r_score)
          /\ r_levels[2] = <<"safe", "low", "medium", "high">>[Rank(LevelOf(r_score)) + 1]
          /\ Rank(r_levels[1]) = SchemaRank(r_levels[2])
    /\ r_pc = "batch_returned" =>
          \A i \in 1..Len(r_predictions) :
              r_predictions[i].risk_level = LevelOf(10 * r_predictions[i].risk_score)

\* a score of exactly 80 is critical and high
CategoriesAgreeWitness ==
    r_pc = "categorized" /\ r_score = 800 /\ r_levels = <<"critical", "high">>

SameCompleteness(i, j) ==
    /\ NanOf(r_cells[i]) = NanOf(r_cells[j])
    /\ MissingOf(r_cells[i]) = MissingOf(r_cells[j])

Extremity(i) == Abs(r_predictions[i].risk_score - 50)

ConfidenceIsProduct ==
    \A i \in 1..Len(r_predictions) :
        LET p == r_predictions[i]
            m == MissingOf(r_cells[i])
        IN  /\ InRange(p.confidence, 0, ConfidenceUnit)
            /\ \E factor \in 0..(2 * Total) :
                  /\ p.confidence = BaseConfidence(r_cells[i], p.risk_score) * factor
                  /\ m = 0 => factor = 2 * Total

Contributions(p) == [k \in 1..Len(p.risk_factors) |-> p.risk_factors[k].contribution]

\* C20: the risk_factors contributions of every prediction are integers in
\* 0..100 whose sum lies in 95..105.
FactorsSumTo100 ==
    r_pc = "batch_returned" =>
        \A i \in 1..Len(r_predictions) :
            /\ \A k \in 1..Len(r_predictions[i].risk_factors) :
                  InRange(Contributions(r_predictions[i])[k], 0, 100)
            /\ InRange(SeqSum(Contributions(r_predictions[i])), 95, 105)

FactorNames(p) == [k \in 1..Len(p.risk_factors) |-> p.risk_factors[k].factor]

Fallbacks(p) == {k \in 1..Len(p.risk_factors) : FactorNames(p)[k] = "Favorable Pest Climate"}

\* C21: a prediction with risk_score > 60 has a non-empty risk_factors list;
\* the generic fallback factor is there exactly once, as the last entry and
\* normalised with the others, when fewer than 2 threshold rules fired and
\* risk_score > 60, and it is not there at all otherwise.
FallbackFactor ==
    r_pc = "batch_returned" =>
        \A i \in 1..Len(r_predictions) :
            LET p == r_predictions[i]
                n == Len(p.risk_factors)
                rules == n - Cardinality(Fallbacks(p))
            IN  /\ p.risk_score > 60 => n > 0
                /\ IF p.risk_score > 60 /\ rules < 2
                   THEN /\ Fallbacks(p) = {n}
                        /\ InRange(SeqSum(Contributions(p)), 95, 100)
                   ELSE Fallbacks(p) = {}

FallbackFactorWitness ==
    /\ r_pc = "batch_returned" /\ Len(r_predictions) = 2
    /\ r_predictions[1].risk_score > 60 /\ FactorNames(r_predictions[1]) = <<"Favorable Pest Climate">>
    /\ r_predictions[2].risk_score > 60 /\ Len(r_predictions[2].risk_factors) = 2
    /\ Fallbacks(r_predictions[2]) = {2}

\* C22: every prediction of predict_batch with risk_score > 60 has at least
\* 2 entries in risk_factors.
HighRiskHasTwoFactors ==
    r_pc = "batch_returned" =>
        \A i \in 1..Len(r_predictions) :
            r_predictions[i].risk_score > 60 => Len(r_predictions[i].risk_factors) >= 2

-----------------------------------------------------------------------------
(* Model loading: InsuranceRiskModel (insurance_model.py) and              *)
(* get_model_instance (risk_model.py).  An instance is <<>> for None or    *)
(* <<[model, is_loaded]>>; a model is the artifact joblib.load returned,   *)
(* "None" before any load.                                                 *)

MaxCalls == 4

\* what a path holds: no file, a file joblib.load raises on, or a model
GoodArtifacts == {"model_a", "model_b"}
Artifacts == {"absent", "corrupt"} \cup GoodArtifacts

\* a pickle that loads but has no 'feature_names' entry (risk_model.py:58)
RiskArtifacts == Artifacts \cup {"no_feature_names"}

\* A load that falls back to a default model when no artifact loads.
InsuranceLoadDefault(self, trained, legacy) ==
    LET full == IF trained # "absent" THEN trained ELSE legacy
    IN  IF full \in GoodArtifacts
        THEN [self |-> [model |-> full, is_loaded |-> TRUE], result |-> TRUE]
        ELSE [self |-> [model |-> "default", is_loaded |-> TRUE], result |-> TRUE]

\* insurance_model.py:50-73: InsuranceRiskModel.load
InsuranceLoad(self, trained, legacy) ==
    IF trained = "absent" /\ legacy = "absent"
    THEN [self |-> self, result |-> FALSE]
    ELSE LET full == IF trained # "absent" THEN trained ELSE legacy
         IN  IF full = "corrupt"
             THEN [self |-> self, result |-> FALSE]
             ELSE [self |-> [model |-> full, is_loaded |-> TRUE], result |-> TRUE]

\* risk_model.py:21-73: RiskPredictionModel(), <<>> when the constructor raises
RiskModelNew(artifact) ==
    IF artifact = "absent" THEN [instance |-> <<>>, outcome |-> "FileNotFoundError"]
    ELSE IF artifact \in {"corrupt", "no_feature_names"}
    THEN [instance |-> <<>>, outcome |-> "RuntimeError: Failed to load model"]
    ELSE [instance |-> <<[model |-> artifact, is_loaded |-> TRUE]>>, outcome |-> "returned"]

Called(op, outcome, model) == [op |-> op, outcome |-> outcome, model |-> model]

LoadInit ==
    /\ IdleGeo /\ IdleGrid /\ IdlePipe /\ IdleCtx /\ IdleRisk /\ IdleThumbs /\ IdleWs /\ IdleVeg /\ IdleDates
    /\ _instance = <<>>
    /\ _model_instance = <<>>
    /\ m_loads = {}
    /\ k_loads = {}
    /\ m_last = <<>>
    /\ m_calls = 0

\* insurance_model.py:11-16, 75-76: get_insurance_model() -> InsuranceRiskModel()
GetInsuranceModel ==
    /\ m_calls < MaxCalls
    /\ _instance' = IF _instance = <<>> THEN <<[model |-> "None", is_loaded |-> FALSE]>>
                     ELSE _instance
    /\ m_last' = <<Called("get_insurance_model", "returned", "None")>>
    /\ m_calls' = m_calls + 1
    /\ UNCHANGED <<_model_instance, m_loads, k_loads>>
    /\ UNCHANGED NotLoad

\* insurance_model.py:50-73, called on the singleton
InsuranceLoadCall ==
    /\ m_calls < MaxCalls
    /\ _instance # <<>>
    /\ \E trained \in Artifacts, legacy \in Artifacts :
          LET loaded == InsuranceLoad(_instance[1], trained, legacy)
              full == IF trained # "absent" THEN trained ELSE legacy
          IN  /\ _instance' = <<loaded.self>>
              /\ m_loads' = IF loaded.result THEN m_loads \cup ({full} \cap GoodArtifacts)
                            ELSE m_loads
              /\ m_last' = <<Called("load", IF loaded.result THEN "True" ELSE "False", full)>>
    /\ m_calls' = m_calls + 1
    /\ UNCHANGED <<_model_instance, k_loads>>
    /\ UNCHANGED NotLoad

\* insurance_model.py:18-48, called on the singleton with all features present
InsurancePredictCall ==
    /\ m_calls < MaxCalls
    /\ _instance # <<>>
    /\ \E raw \in InsuranceRawOutputs :
          LET self == _instance[1]
              features == [f \in {required_features[i] : i \in 1..Len(required_features)}
                              |-> Num(50)]
              result == InsurancePredict(self.is_loaded /\ self.model # "None", features, raw)
          IN  m_last' = <<Called("predict",
                                 IF result.kind = "value" THEN "value" ELSE result.error,
                                 IF result.invoked THEN self.model ELSE "None")>>
    /\ m_calls' = m_calls + 1
    /\ UNCHANGED <<_instance, _model_instance, m_loads, k_loads>>
    /\ UNCHANGED NotLoad

\* risk_model.py:290-295: get_model_instance()
GetModelInstance ==
    /\ m_calls < MaxCalls
    /\ \E artifact \in RiskArtifacts :
          IF _model_instance = <<>>
          THEN LET new == RiskModelNew(artifact)
               IN  /\ _model_instance' = new.instance
                   /\ k_loads' = IF new.instance # <<>> THEN k_loads \cup {artifact} ELSE k_loads
                   /\ m_last' = <<Called("get_model_instance", new.outcome, artifact)>>
          ELSE /\ UNCHANGED <<_model_instance, k_loads>>
               /\ m_last' = <<Called("get_model_instance", "returned", "None")>>
    /\ m_calls' = m_calls + 1
    /\ UNCHANGED <<_instance, m_loads>>
    /\ UNCHANGED NotLoad

\* risk_model.py:90-91, 137: predict_batch on the instance get_model_instance returned
ModelPredictBatchCall ==
    /\ m_calls < MaxCalls
    /\ _model_instance # <<>>
    /\ m_last' = IF ~_model_instance[1].is_loaded
                 THEN <<Called("predict_batch", "RuntimeError: Model not loaded", "None")>>
                 ELSE <<Called("predict_batch", "value", _model_instance[1].model)>>
    /\ m_calls' = m_calls + 1
    /\ UNCHANGED <<_instance, _model_instance, m_loads, k_loads>>
    /\ UNCHANGED NotLoad

LoadNext ==
    \/ GetInsuranceModel
    \/ InsuranceLoadCall
    \/ InsurancePredictCall
    \/ GetModelInstance
    \/ ModelPredictBatchCall

SpecLoad == LoadInit /\ [][LoadNext]_vars

LastCall(op) == m_last # <<>> /\ m_last[1].op = op

\* what holds after every call: a model in use came from a load that
\* succeeded, and a prediction without one raised "Model not loaded"
LoadedByLoad ==
    /\ _instance # <<>> =>
          /\ _instance[1].is_loaded => _instance[1].model \in m_loads
          /\ _instance[1].model # "None" => _instance[1].model \in m_loads
    /\ _model_instance # <<>> => _model_instance[1].model \in k_loads
    /\ LastCall("predict") =>
          /\ m_last[1].outcome = "value" => m_last[1].model \in m_loads
          /\ m_loads = {} => m_last[1].outcome = "Exception: Model not loaded"
    /\ LastCall("predict_batch") =>
          /\ m_last[1].outcome = "value" => m_last[1].model \in k_loads
          /\ k_loads = {} => m_last[1].outcome = "RuntimeError: Model not loaded"

\* what every call leaves alone: a load of an absent or corrupt artifact
\* fails and changes neither model nor is_loaded, a constructor that fails
\* leaves no instance, and get_insurance_model() keeps an existing instance
LoadKeepsState ==
    /\ (m_last' # <<>> /\ m_last'[1].op = "load" /\ m_last'[1].model \notin GoodArtifacts) =>
          m_last'[1].outcome = "False" /\ UNCHANGED <<_instance, m_loads>>
    /\ (m_last' # <<>> /\ m_last'[1].op = "get_model_instance"
            /\ m_last'[1].model \in RiskArtifacts \ GoodArtifacts) =>
          m_last'[1].outcome # "returned" /\ _model_instance' = <<>>
    /\ (_instance # <<>> /\ m_last' # <<>> /\ m_last'[1].op = "get_insurance_model") =>
          UNCHANGED _instance
    /\ (_instance # <<>> /\ _instance[1].is_loaded) =>
          (_instance' # <<>> /\ _instance'[1].is_loaded)

\* C23: in every sequence of get-instance, load and predict calls a
\* prediction is computed only by a model that an earlier successful load
\* returned, a prediction before any successful load raises the
\* model-not-loaded error, a load of an absent or corrupt artifact fails
\* without substituting a model or changing model and is_loaded, and a
\* loaded singleton stays loaded across get_insurance_model() calls.
ModelOnlyFromLoad == [](LoadedByLoad) /\ [][LoadKeepsState]_vars

ModelOnlyFromLoadWitness ==
    /\ LastCall("predict") /\ m_last[1].outcome = "value" /\ m_last[1].model = "model_b"
    /\ m_loads = {"model_a", "model_b"}

-----------------------------------------------------------------------------
(* GEESatellite.extract_features_for_cells, lines 182-260: the thumbnail   *)
(* requests run by the pool's worker threads while the main thread submits *)
(* them and collects the futures as they complete.                         *)

\* line 186: collection.toList(5)
MaxThumbnails == 5

\* A collection that keeps what a failed request left behind.
CollectedAlways(urls, img_id, outcome) == Append(urls, Thumbnail(img_id))

\* lines 214-220: the body of the as_completed loop for one future
Collected(urls, img_id, outcome) ==
    IF outcome = "returned" THEN Append(urls, Thumbnail(img_id)) ELSE urls

ThumbsInit ==
    /\ IdleGeo /\ IdleGrid /\ IdlePipe /\ IdleCtx /\ IdleRisk /\ IdleLoad /\ IdleWs /\ IdleVeg /\ IdleDates
    /\ t_pc = "list"
    /\ image_list = 0
    /\ future_to_img = <<>>
    /\ t_yielded = {}
    /\ image_urls = <<>>
    /\ t_results = <<>>

\* line 186: image_list = collection.toList(5).getInfo(); when it raises the
\* handler of line 223 leaves image_urls empty
ListImages ==
    /\ t_pc = "list"
    /\ \E n \in 0..MaxThumbnails :
          /\ image_list' = n
          /\ t_pc' = IF n = 0 THEN "extract" ELSE "submit"
    /\ UNCHANGED <<future_to_img, t_yielded, image_urls, t_results>>
    /\ UNCHANGED NotThumbs

\* line 211: executor.submit(generate_thumbnail, img_info) for the next image;
\* the pool has a free worker for each of the at most 5 tasks
Submit ==
    /\ t_pc = "submit"
    /\ future_to_img' = Append(future_to_img, "running")
    /\ t_pc' = IF Len(future_to_img) + 1 = image_list THEN "collect" ELSE "submit"
    /\ UNCHANGED <<image_list, t_yielded, image_urls, t_results>>
    /\ UNCHANGED NotThumbs

\* lines 189-206: a worker finishes generate_thumbnail; getThumbURL returned or raised
WorkerFinishes ==
    /\ \E i \in 1..Len(future_to_img), outcome \in {"returned", "raised"} :
          /\ future_to_img[i] = "running"
          /\ future_to_img' = [future_to_img EXCEPT ![i] = outcome]
    /\ UNCHANGED <<t_pc, image_list, t_yielded, image_urls, t_results>>
    /\ UNCHANGED NotThumbs

\* lines 214-220: as_completed yields a finished future that it has not yielded yet
Collect ==
    /\ t_pc = "collect"
    /\ \E i \in 1..image_list :
          /\ i \notin t_yielded
          /\ future_to_img[i] # "running"
          /\ t_yielded' = t_yielded \cup {i}
          /\ image_urls' = Collected(image_urls, i, future_to_img[i])
    /\ UNCHANGED <<t_pc, image_list, future_to_img, t_results>>
    /\ UNCHANGED NotThumbs

\* lines 209, 222: the loop ends when every future was yielded and the with
\* block is left (executor.shutdown(wait=True))
LeavePool ==
    /\ t_pc = "collect"
    /\ t_yielded = 1..image_list
    /\ \A i \in 1..image_list : future_to_img[i] # "running"
    /\ t_pc' = "extract"
    /\ UNCHANGED <<image_list, future_to_img, t_yielded, image_urls, t_results>>
    /\ UNCHANGED NotThumbs

\* lines 226-260: the per-cell loop
ExtractCells ==
    /\ t_pc = "extract"
    /\ \E cells \in CellLists \ {<<>>} :
       \E nd \in [1..Len(cells) -> {r \in NdviResponses : r.value # 300}] :
          t_results' = SetFeatures(cells,
              [i \in 1..Len(cells) |->
                  [GeeFeatures(image_list, <<>>, nd[i]) EXCEPT !.image_urls = image_urls]])
    /\ t_pc' = "returned"
    /\ UNCHANGED <<image_list, future_to_img, t_yielded, image_urls>>
    /\ UNCHANGED NotThumbs

ThumbsNext ==
    \/ ListImages
    \/ Submit
    \/ WorkerFinishes
    \/ Collect
    \/ LeavePool
    \/ ExtractCells

SpecThumbs == ThumbsInit /\ [][ThumbsNext]_vars

Succeeded == {i \in 1..Len(future_to_img) : future_to_img[i] = "returned"}

UrlIds == {image_urls[k].id : k \in 1..Len(image_urls)}

\* C24: in every interleaving and for every set of failing requests,
\* image_urls holds at most one entry per image, each the thumbnail of a
\* request that succeeded and tagged with that image's id; once the
\* per-cell extraction has started every worker has finished and image_urls
\* holds exactly the succeeded images, whatever the completion order; the
\* extraction is reached from every state and returns every cell with
\* these image_urls.
ThumbnailsCollected ==
    /\ \A k \in 1..Len(image_urls) :
          /\ image_urls[k].id \in Succeeded \cap t_yielded
          /\ image_urls[k] = [id |-> image_urls[k].id, url |-> <<"thumb", image_urls[k].id>>]
    /\ Len(image_urls) = Cardinality(UrlIds)
    /\ t_pc \in {"extract", "returned"} =>
          /\ Len(future_to_img) = image_list
          /\ \A i \in 1..image_list : future_to_img[i] # "running"
          /\ UrlIds = Succeeded
    /\ t_pc = "returned" =>
          /\ t_results # <<>>
          /\ \A c \in 1..Len(t_results) : t_results[c].features.image_urls = image_urls
    /\ t_pc \notin {"idle", "returned"} => ENABLED ThumbsNext

ThumbnailsCollectedWitness ==
    /\ t_pc = "returned"
    /\ image_list = MaxThumbnails
    /\ future_to_img = <<"returned", "raised", "returned", "raised", "returned">>
    /\ [k \in 1..Len(image_urls) |-> image_urls[k].id] = <<5, 1, 3>>
    /\ Len(t_results) = 2

-----------------------------------------------------------------------------
(* analyze_risk_websocket (main.py:246-519): the messages the handler      *)
(* sends, a client that may disconnect at any time, and the summary of     *)
(* the 'complete' message.                                                 *)

\* lines 422-423: random.seed(i); random.randint(20, 95) for i = 0, 1, 2, ...
\* (CPython's generator), the risk_score of the i-th cell
MockScores == <<69, 37, 27, 50, 50, 52, 93, 61>>

\* lines 425-427
RiskLevel(risk_score) ==
    IF risk_score > 75 THEN "High" ELSE IF risk_score > 50 THEN "Medium" ELSE "Low"

\* lines 472-475, 482-493
Summary(risk_scores) ==
    LET cells == 1..Len(risk_scores)
    IN  [totalCells |-> Len(risk_scores),
         highRiskCells |-> Cardinality({i \in cells : risk_scores[i] >= 75}),
         mediumRiskCells |-> Cardinality({i \in cells : 50 <= risk_scores[i] /\ risk_scores[i] < 75}),
         lowRiskCells |-> Cardinality({i \in cells : risk_scores[i] < 50})]

\* lines 418-500: the feature properties and the summary for n grid cells
ResponseData(n) ==
    LET risk_scores == [i \in 1..n |-> MockScores[i]]
    IN  [riskLevels |-> [i \in 1..n |-> RiskLevel(risk_scores[i])],
         summary |-> Summary(risk_scores)]

\* requests: text that does not parse or validate, a custom polygon of fewer
\* than 3 points, an area above MAX_AREA_KM2, or one that is analysed and
\* yields that many grid cells, with or without thumbnails
Requests ==
    {[kind |-> k, cells |-> 0, images |-> FALSE] : k \in {"bad_json", "invalid_polygon", "too_large"}}
    \cup {[kind |-> "ok", cells |-> n, images |-> b] : n \in 0..Len(MockScores), b \in BOOLEAN}

\* the send_json calls of a run in which every call returns (lines 262-502)
Sends(request) ==
    IF request.kind = "invalid_polygon" THEN <<"error">>
    ELSE IF request.kind = "too_large" THEN <<"initializing", "error">>
    ELSE <<"initializing", "soil_analysis", "weather_forecast", "market_data", "web_search",
           "search_results", "satellite_extraction">>
         \o (IF request.images /\ request.cells > 0 THEN <<"satellite_images">> ELSE <<>>)
         \o <<"risk_modeling", "complete">>

\* what a send_json or close raises once the client is gone; "" when the
\* call returns although nobody receives
SendFailures == {"WebSocketDisconnect", "RuntimeError", ""}

\* A handler without except clauses.
AfterRaiseEscapes(exc) == "escaped"

\* lines 505-513: where an exception raised inside the try block leads
AfterRaise(exc) == IF exc = "WebSocketDisconnect" THEN "done" ELSE "except"

WsInit ==
    /\ IdleGeo /\ IdleGrid /\ IdlePipe /\ IdleCtx /\ IdleRisk /\ IdleLoad /\ IdleThumbs /\ IdleVeg /\ IdleDates
    /\ ws_pc = "receive"
    /\ ws_client = "connected"
    /\ ws_request \in Requests
    /\ ws_step = 1
    /\ ws_delivered = <<>>
    /\ ws_cut = -1
    /\ ws_complete = <<>>

\* the client goes away
ClientDisconnects ==
    /\ ws_pc \notin {"done", "escaped"}
    /\ ws_client = "connected"
    /\ ws_client' = "disconnected"
    /\ ws_cut' = Len(ws_delivered)
    /\ UNCHANGED <<ws_pc, ws_request, ws_step, ws_delivered, ws_complete>>
    /\ UNCHANGED NotWs

\* lines 254-256: receive_text, json.loads, AnalysisRequest(**request_dict)
ReceiveText ==
    /\ ws_pc = "receive"
    /\ ws_pc' = IF ws_client = "disconnected" THEN AfterRaise("WebSocketDisconnect")
                ELSE IF ws_request.kind = "bad_json" THEN AfterRaise("ValueError")
                ELSE "send"
    /\ UNCHANGED <<ws_client, ws_request, ws_step, ws_delivered, ws_cut, ws_complete>>
    /\ UNCHANGED NotWs

\* lines 262-502: the work up to the next send_json, and that call
SendJson ==
    /\ ws_pc = "send"
    /\ LET step == Sends(ws_request)[ws_step]
           last == ws_step = Len(Sends(ws_request))
       IN  /\ ws_complete' = IF step = "complete" THEN <<ResponseData(ws_request.cells)>>
                             ELSE ws_complete
           /\ IF ws_client = "connected"
              THEN /\ ws_delivered' = Append(ws_delivered, step)
                   /\ ws_step' = ws_step + 1
                   /\ ws_pc' = IF last THEN "close" ELSE "send"
              ELSE \E exc \in SendFailures :
                   /\ UNCHANGED ws_delivered
                   /\ IF exc = ""
                      THEN ws_step' = ws_step + 1 /\ ws_pc' = IF last THEN "close" ELSE "send"
                      ELSE ws_step' = ws_step /\ ws_pc' = AfterRaise(exc)
    /\ UNCHANGED <<ws_client, ws_request, ws_cut>>
    /\ UNCHANGED NotWs

\* lines 263, 280, 503: websocket.close() and the end of the handler
CloseSocket ==
    /\ ws_pc = "close"
    /\ IF ws_client = "connected"
       THEN ws_pc' = "done"
       ELSE \E exc \in SendFailures : ws_pc' = IF exc = "" THEN "done" ELSE AfterRaise(exc)
    /\ UNCHANGED <<ws_client, ws_request, ws_step, ws_delivered, ws_cut, ws_complete>>
    /\ UNCHANGED NotWs

\* lines 507-514: except Exception: send the error message and close, inside
\* try / except: pass
SendError ==
    /\ ws_pc = "except"
    /\ ws_delivered' = IF ws_client = "connected" THEN Append(ws_delivered, "error")
                       ELSE ws_delivered
    /\ ws_pc' = "done"
    /\ UNCHANGED <<ws_client, ws_request, ws_step, ws_cut, ws_complete>>
    /\ UNCHANGED NotWs

WsHandler == ReceiveText \/ SendJson \/ CloseSocket \/ SendError

WsNext == ClientDisconnects \/ WsHandler

SpecWs == WsInit /\ [][WsNext]_vars

\* the event loop runs the handler's coroutine whenever it can proceed
SpecWsLive == WsInit /\ [][WsNext]_vars /\ WF_vars(WsHandler)

Labelled(level) ==
    Cardinality({i \in 1..Len(ws_complete[1].riskLevels) : ws_complete[1].riskLevels[i] = level})

\* C30: in the 'complete' message highRiskCells, mediumRiskCells and
\* lowRiskCells equal the numbers of cells labelled High, Medium and Low,
\* and the three sum to totalCells.
SummaryMatchesLabels ==
    ws_complete # <<>> =>
        LET summary == ws_complete[1].summary
        IN  /\ summary.highRiskCells = Labelled("High")
            /\ summary.mediumRiskCells = Labelled("Medium")
            /\ summary.lowRiskCells = Labelled("Low")
            /\ summary.highRiskCells + summary.mediumRiskCells + summary.lowRiskCells
                  = summary.totalCells

-----------------------------------------------------------------------------
(* FeatureExtractor._extract_satellite_features (lines 118-149) over the   *)
(* whole range of the vegetation index, in thousandths.                    *)

\* NDVI = (NIR - Red) / (NIR + Red) lies in [-1, 1]
SampledValues == -1000..1000

VegInit ==
    /\ IdleGeo /\ IdleGrid /\ IdlePipe /\ IdleCtx /\ IdleRisk /\ IdleLoad /\ IdleThumbs /\ IdleWs /\ IdleDates
    /\ v_pc = "sample"
    /\ v_resp \in {[kind |-> "error", value |-> 0], [kind |-> "null", value |-> 0]}
                  \cup {[kind |-> "value", value |-> v] : v \in SampledValues}
    /\ v_features = <<>>

\* lines 118-149 for one cell
SampleVegetation ==
    /\ v_pc = "sample"
    /\ v_features' = SatelliteSampled(v_resp)
    /\ v_pc' = "recorded"
    /\ UNCHANGED v_resp
    /\ UNCHANGED NotVeg

VegNext == SampleVegetation

SpecVeg == VegInit /\ [][VegNext]_vars

\* C26: a sampled value v is recorded as ndvi = v with vegetation_type
\* sparse for v < 0.2, scrub for 0.2 <= v < 0.4, grassland for
\* 0.4 <= v < 0.6 and forest otherwise, encoded 0, 1, 2, 3.
VegetationBinned ==
    (v_pc = "recorded" /\ v_resp.kind = "value") =>
        LET v == v_resp.value
            category == IF v < 200 THEN 0 ELSE IF v < 400 THEN 1 ELSE IF v < 600 THEN 2 ELSE 3
        IN  /\ v_features.ndvi = v
            /\ v_features.vegetation_type = <<"sparse", "scrub", "grassland", "forest">>[category + 1]
            /\ v_features.vegetation_type_encoded = category

-----------------------------------------------------------------------------
(* _add_temporal_features (lines 203-252) and the temporal part of         *)
(* _calculate_derived_features (lines 352-374) over date windows whose     *)
(* midpoints fall in every month and on every day of the week.             *)

\* window starts: every third day from 2024-01-01 (a Monday) for a year
WindowStarts == {DaysFromCivil(Date(2024, 1, 1)) + 3 * j : j \in 0..121}

\* window lengths in days
WindowLengths == {0, 1, 7, 30}

\* what the earlier layers left in a cell (the keys the derived layer reads)
EarlierFeatures(ndvi) ==
    [k \in {"ndvi", "dist_to_boundary", "dist_to_water", "dist_to_road", "dist_to_settlement"}
        |-> IF k = "ndvi" THEN ndvi ELSE 1000]

DatesInit ==
    /\ IdleGeo /\ IdleGrid /\ IdlePipe /\ IdleCtx /\ IdleRisk /\ IdleLoad /\ IdleThumbs /\ IdleWs
    /\ IdleVeg
    /\ d_pc = "call"
    /\ \E start \in WindowStarts, length \in WindowLengths :
          d_window = [date_start |-> CivilFromDays(start),
                      date_end |-> CivilFromDays(start + length),
                      moon_phase |-> 50]
    /\ d_cells = <<[SampleCell1 EXCEPT !.features = EarlierFeatures(300)],
                   [SampleCell2 EXCEPT !.features = EarlierFeatures(700)]>>

\* lines 203-252
TemporalLayer ==
    /\ d_pc = "call"
    /\ d_cells' = MergeFeatures(d_cells,
          [i \in 1..Len(d_cells) |->
              TemporalFeatures(d_window.date_start, d_window.date_end, d_window.moon_phase)])
    /\ d_pc' = "temporal"
    /\ UNCHANGED d_window
    /\ UNCHANGED NotDates

\* lines 344-374
DerivedLayer ==
    /\ d_pc = "temporal"
    /\ d_cells' = MergeFeatures(d_cells,
          [i \in 1..Len(d_cells) |-> DerivedFeatures(d_cells[i].features)])
    /\ d_pc' = "derived"
    /\ UNCHANGED d_window
    /\ UNCHANGED NotDates

DatesNext == TemporalLayer \/ DerivedLayer

SpecDates == DatesInit /\ [][DatesNext]_vars

Midpoint == MiddleDay(d_window.date_start, d_window.date_end)

TemporalKeys == {"moon_illumination", "season", "season_encoded", "day_of_week"}

\* C27: for every date window all cells get the same temporal features:
\* season is wet exactly when the month of the window's midpoint is 4, 5
\* or 11, season_encoded is 1 exactly when the season is wet, day_of_week
\* is the midpoint's day counted from Monday = 0; after the derived layer
\* dry_season = 1 - season_encoded and is_weekend = 1 exactly on days 5, 6.
TemporalFeaturesAgree ==
    d_pc \in {"temporal", "derived"} =>
        \A i \in 1..Len(d_cells) :
            LET f == d_cells[i].features
            IN  /\ \A k \in TemporalKeys : f[k] = d_cells[1].features[k]
                /\ f["season"] = (IF CivilFromDays(Midpoint).m \in {4, 5, 11} THEN "wet" ELSE "dry")
                /\ f["season_encoded"] = (IF f["season"] = "wet" THEN 1 ELSE 0)
                /\ f["day_of_week"] \in 0..6
                /\ f["day_of_week"] = (Midpoint - DaysFromCivil(Date(2024, 1, 1))) % 7
                /\ d_pc = "derived" =>
                      /\ f["dry_season"] = 1 - f["season_encoded"]
                      /\ f["is_weekend"] = (IF f["day_of_week"] \in {5, 6} THEN 1 ELSE 0)

TemporalFeaturesWitness ==
    /\ d_pc = "derived"
    /\ d_window.date_start = Date(2024, 11, 2) /\ d_window.date_end = Date(2024, 11, 3)
    /\ \A i \in 1..2 :
          /\ d_cells[i].features["season"] = "wet" /\ d_cells[i].features["dry_season"] = 0
          /\ d_cells[i].features["day_of_week"] = 5 /\ d_cells[i].features["is_weekend"] = 1

-----------------------------------------------------------------------------
(* The topographic layer, checked in the feature pipeline.                 *)

\* C28: after the topographic layer, whichever branch a cell took, its
\* terrain_ruggedness is slope / 60 * 10 of its own recorded slope, clamped
\* to [0, 10], within the rounding to one decimal (values in tenths).
RuggednessFromSlope ==
    \A i \in 1..Len(p_cells) :
        {"slope", "terrain_ruggedness"} \subseteq DOMAIN p_cells[i].features =>
            LET slope == p_cells[i].features["slope"]
                ruggedness == p_cells[i].features["terrain_ruggedness"]
            IN  /\ InRange(ruggedness, 0, 100)
                /\ slope <= 0 => ruggedness = 0
                /\ slope >= 600 => ruggedness = 100
                /\ (0 < slope /\ slope < 600) => Abs(6 * ruggedness - slope) <= 4

-----------------------------------------------------------------------------
(* create_grid_cells with the cell sizes the WebSocket handler can pass    *)
(* (main.py:376-377: cell_size_km = request.advanced.gridGranularity, an   *)
(* int that main.py:52-56 accepts without a lower bound).                  *)

\* The triangle (0, 35.1), (0.1, 35.0), (0.1, 35.1) (lat, lng): the south-west
\* corner of its bounding box lies outside it.
NorthEastTriangle ==
    <<Pt(0, 35 * Deg + Deg \div 10), Pt(Deg \div 10, 35 * Deg),
      Pt(Deg \div 10, 35 * Deg + Deg \div 10)>>

\* gridGranularity: 0, the default 1, and larger sizes
Granularities == {0, 1, 2, 3, 5, 10, 20}

GridAnyInit ==
    /\ IdleGeo /\ IdlePipe /\ IdleCtx /\ IdleRisk /\ IdleLoad /\ IdleThumbs /\ IdleWs /\ IdleVeg /\ IdleDates
    /\ g_pc = "call"
    /\ g_polygon = NorthEastTriangle
    /\ g_cell_size_km \in Granularities
    /\ g_lat = 0
    /\ g_lng = 0
    /\ g_cell_id = 0
    /\ g_cells = <<>>

\* the interpreter keeps running the loops
SpecGridAny == GridAnyInit /\ [][GridNext]_vars /\ WF_vars(GridNext)

\* C29: for every polygon and every cell size the handler can pass, the two
\* tiling loops finish and create_grid_cells returns.
GridTerminates == <>(g_pc = "done")

=============================================================================
